---- MODULE Spec2Model ----
(***************************************************************************)
(* Model of the phase orchestration engine of ansible-host-prep:           *)
(* phases.Manager (Register / Run / executePhase), the shared              *)
(* phases.Context store and the input helpers (inputKey / SetInput /       *)
(* GetInput), driven by Phase, Observer and InputHandler implementations.  *)
(***************************************************************************)
EXTENDS Integers, Sequences, FiniteSets, TLC

\* ------------------------------------------------------------------ bounds
\* longest argument list of one Register call
MaxBatch == 2
\* cap on len(m.phases)
MaxPhases == 4
\* cap on the number of RequestInput calls that return during one run
MaxHandlerCalls == 2
\* observers configured through WithObserver
NumObservers == 2
\* goroutines calling Context.Set / Context.Get on one Context
NumThreads == 2
\* cap on the number of Set / Get calls made on that Context
MaxOps == 3
\* cap on the number of EnsureElevatedClient calls against one host
MaxResolves == 2
\* cap on the number of ElevatedClient.Run calls
MaxRuns == 2
\* number of goroutines calling Start / StartFrom on one App
NumCallers == 2

\* Calls of startPipelineFrom in one program, the first by model.Init
MaxStarts == 2

\* Values the operator submits in one program
MaxAnswers == 2
\* cap on the log lines kept per phase (the program keeps the last 20)
MaxLogLines == 2

\* ------------------------------------------------------------------ errors
\* Go's nil error
NoError == [type |-> "nil"]

\* ValidationError{Reason: "phase id must not be empty"}
ValidationError == [type |-> "ValidationError", Reason |-> "phase id must not be empty"]

\* DuplicatePhaseError{ID: id}
DuplicatePhaseError(id) == [type |-> "DuplicatePhaseError", ID |-> id]

\* InputRequestError{PhaseID, Input: InputDefinition{ID: inputID}, Reason}
InputRequestError(phaseID, inputID, reason) ==
    [type |-> "InputRequestError", PhaseID |-> phaseID, Input |-> inputID, Reason |-> reason]

\* PhaseExecutionError{Phase: meta, Err: err}
PhaseExecutionError(metaID, err) ==
    [type |-> "PhaseExecutionError", Phase |-> metaID, Err |-> err]

\* context.Canceled, as a phase returns it from ctx.Err()
ctxCanceled == [type |-> "errorString", msg |-> "context canceled"]

\* errors.New("boom"): the terminal error of a failing fake phase
failErr == [type |-> "errorString", msg |-> "boom"]

\* fmt.Errorf("user cancelled"): what a handler returns on cancellation
handlerCancelled == [type |-> "errorString", msg |-> "user cancelled"]

\* fmt.Errorf("...: %w", err): an error wrapping another
WrapError(err) == [type |-> "wrapError", Err |-> err]

\* errors.As(err, &inputErr): the first InputRequestError on err's Unwrap
\* chain, NoError when there is none
RECURSIVE AsInputRequest(_)
AsInputRequest(err) ==
    IF err.type = "InputRequestError" THEN err
    ELSE IF err.type \in {"wrapError", "PhaseExecutionError"} THEN AsInputRequest(err.Err)
    ELSE NoError

\* errors.As(err, &inputErr) reports true
IsInputRequest(err) == AsInputRequest(err) # NoError

\* ------------------------------------------------------------------ store
\* fmt.Sprintf("phase:%s:input:%s", phaseID, inputID)
inputKey(phaseID, inputID) == "phase:" \o phaseID \o ":input:" \o inputID

\* Context.Set: c.store[key] = value under the write lock
Set(c, key, value) ==
    [k \in (DOMAIN c) \cup {key} |-> IF k = key THEN value ELSE c[k]]

\* Context.Get: (val, ok) under the read lock
Get(c, key) ==
    IF key \in DOMAIN c THEN [val |-> c[key], ok |-> TRUE]
                        ELSE [val |-> "", ok |-> FALSE]

\* A SetInput that loses the value
SetInput_drop(c, phaseID, inputID, value) == c

\* SetInput(ctx, phaseID, inputID, value)
SetInput(c, phaseID, inputID, value) == Set(c, inputKey(phaseID, inputID), value)

\* GetInput(ctx, phaseID, inputID)
GetInput(c, phaseID, inputID) == Get(c, inputKey(phaseID, inputID))

\* NewContext(): an empty store
NewContext == [k \in {} |-> ""]

\* ------------------------------------------------------------------ phases
\* A nil Phase handed to Register
NilPhase == [ID |-> "<nil>", kind |-> "nil"]

\* The Phase implementations the manager is driven with: meta.ID and the
\* behaviour of Run.  Two objects may report the same ID.
PhasePool ==
    { [ID |-> "A", kind |-> "ok"],
      [ID |-> "A", kind |-> "fail"],
      [ID |-> "B", kind |-> "needsInput"],
      [ID |-> "B", kind |-> "foreignInput"],
      [ID |-> "C", kind |-> "ok"],
      [ID |-> "C", kind |-> "alwaysInput"],
      [ID |-> "D", kind |-> "ok"],
      [ID |-> "D", kind |-> "wrappedInput"],
      [ID |-> "",  kind |-> "ok"],
      NilPhase }

\* Values an InputHandler hands back
HandlerValues == {"abc123", ""}

\* The ID another phase is known under: what a phase that forwards a
\* sub-phase's request puts into InputRequestError.PhaseID
OtherID(id) == IF id = "A" THEN "B" ELSE "A"

\* phase.Run(ctx, phaseCtx): the error the phase returns on this store
PhaseRun(p, c) ==
    CASE p.kind = "ok" -> NoError
      [] p.kind = "fail" -> failErr
      [] p.kind = "needsInput" ->
            LET got == GetInput(c, p.ID, "token")
            IN  IF got.ok /\ got.val # "" THEN NoError
                ELSE InputRequestError(p.ID, "token", "required")
      [] p.kind = "wrappedInput" ->
            LET got == GetInput(c, p.ID, "token")
            IN  IF got.ok /\ got.val # "" THEN NoError
                ELSE WrapError(InputRequestError(p.ID, "token", "required"))
      [] p.kind = "alwaysInput" -> InputRequestError(p.ID, "password", "")
      [] p.kind = "foreignInput" ->
            LET got == GetInput(c, p.ID, "token")
            IN  IF got.ok /\ got.val # "" THEN NoError
                ELSE InputRequestError(OtherID(p.ID), "token", "required")
      [] OTHER -> NoError

\* Phases of a pipeline whose ctx gets cancelled: "checksCtx" returns
\* ctx.Err() when the ctx is done and nil otherwise, the others never look
CtxPool ==
    { [ID |-> "A", kind |-> "ok"],
      [ID |-> "A", kind |-> "checksCtx"],
      [ID |-> "B", kind |-> "needsInput"],
      [ID |-> "C", kind |-> "checksCtx"],
      [ID |-> "D", kind |-> "ok"] }

\* phase.Run(ctx, phaseCtx), done telling whether ctx has been cancelled
PhaseRunCtx(p, c, done) ==
    IF p.kind = "checksCtx" /\ done THEN ctxCanceled ELSE PhaseRun(p, c)

\* ------------------------------------------------------------------ state
VARIABLES
    phases,        \* Manager.phases
    inputHandler,  \* Manager.inputHandler is non-nil
    regErr,        \* what the caller's latest Register call returned; the
                   \* caller drops it when it goes on to call Run
    pc,            \* position of the thread calling Run
    idx,           \* index (1-based) of the phase the Run loop is at
    startIndex,    \* first index (0-based) of the current run
    store,         \* the phases.Context handed to Run
    pending,       \* the InputRequestError executePhase is resolving
    phaseErr,      \* the error executePhase returned
    result,        \* what Run returned
    events,        \* per observer: the notifications received
    invoked,       \* the phase.Run invocations in order, with what each returned
    handlerLog,    \* the RequestInput calls in order: the phase metadata and the
                   \* request passed, the number of phase.Run invocations made
                   \* before the call, and the value or error returned
    app            \* the phasedapp.App driving the manager, if one does:
                   \* whether its program started and model.initialStartIndex

\* The ctx handed to Run
VARIABLES
    ctxDone        \* whether the ctx has been cancelled

ctxVars == <<ctxDone>>

\* Concurrent use of one phases.Context (there `store` is Context.store)
VARIABLES
    mu,            \* Context.mu, a sync.RWMutex: the goroutine holding the
                   \* write lock (0: none) and those holding the read lock
    threads,       \* per goroutine: where it is inside Set / Get, the call's
                   \* arguments, and the calls that had returned when it began
    history        \* the Set / Get calls in the order of their map accesses

\* The goroutines sharing the Context
Threads == 1..NumThreads

\* A goroutine outside Set and Get
idleThread == [pc |-> "idle", op |-> "", key |-> "", value |-> "", id |-> 0, pre |-> {}]

lockVars == <<mu, threads, history>>

\* Typed reads of a phases.Context (there `store` holds typed values)
VARIABLES
    readout        \* the latest typed read: the reader, what it asked for
                   \* and what it returned

readerVars == <<readout>>

\* No typed read made
noRead == [reader |-> "none"]

\* privilege.EnsureElevatedClient against one host
VARIABLES
    host,          \* the remote host: whether the sudo binary is installed
    epc,           \* position of the caller inside ensureElevation
    password,      \* the password the resolution in progress was given
    branch,        \* the case of ensureElevation's switch that was taken
    sent,          \* the commands handed to runner.Run, in order, each with
                   \* the call that sent it and what the host answered
    resolved,      \* what each finished EnsureElevatedClient call returned
    asked,         \* what each EnsureElevatedClient call was given
    runs           \* the commands handed to runner.Run by ElevatedClient.Run,
                   \* in order, each with the session that sent it

privVars == <<host, epc, password, branch, sent, resolved, asked, runs>>

\* sudoensure's Phase.Run on a phases.Context of typed values
VARIABLES
    sudoRun        \* the last Phase.Run: the Context it was given, what its
                   \* ensurer returned and the error it returned itself

sudoVars == <<sudoRun>>

\* No Phase.Run since the Context was last written by somebody else
noSudoRun == [called |-> "none"]

\* sshconnect's Phase.Run on a phases.Context of texts
VARIABLES
    connRun        \* the last Phase.Run: the Context it was given, whether it
                   \* called the connector and with what, and its error

connVars == <<connRun>>

\* No Phase.Run since an input was last stored
noConnRun == [called |-> "none"]

\* One phasedapp.App and the goroutines calling Start / StartFrom on it
VARIABLES
    amu,           \* a.mu: the caller holding it, 0 when free
    inFlight,      \* a.inFlight
    program,       \* a.program: the caller whose tea.Program it is, 0 for nil
    callers        \* per caller: where it is inside App.start, what the call
                   \* returned, its ctx, its program and its pipeline

Callers == 1..NumCallers

appVars == <<amu, inFlight, program, callers>>

\* The status line and the phase log of the program's model
VARIABLES
    secretValues,  \* m.secretValues: the secret values seen so far
    statusMsg,     \* m.statusMsg, with the text it was made from
    logs           \* state.logs of the phase, each line with the text it
                   \* was made from

uiVars == <<secretValues, statusMsg, logs>>

\* The program's model driving pipeline runs (there `store` is the Context
\* m.phaseCtx points to)
VARIABLES
    pipelineActive, \* m.pipelineActive
    prompting,      \* m.prompting
    activePrompt,   \* m.activePrompt: the request shown, open when not nil
    focus,          \* m.focus
    savedInputs,    \* m.savedInputs, by phase ID and input ID
    answers,        \* the values submitPrompt has recorded, in order
    phaseStatus,    \* state.status of each phase
    engines,        \* the goroutines inside manager.RunFrom: where each is
    eventWaiters,   \* waitPhaseEventCmd goroutines receiving on observer.events
    inputWaiters,   \* waitInputRequestCmd goroutines receiving on h.requests
    msgs,           \* the messages on their way to Update
    starts,         \* the calls of startPipelineFrom so far
    tuiStatus,      \* the text last handed to setStatus
    lastOp          \* what the latest step was

tuiVars == <<pipelineActive, prompting, activePrompt, focus, savedInputs, answers,
             phaseStatus, engines, eventWaiters, inputWaiters, msgs, starts, tuiStatus,
             lastOp>>

\* A goroutine that has not called Start yet, with a live ctx
idleCaller ==
    [pc |-> "idle", ret |-> NoError, cancelled |-> FALSE,
     pipeline |-> "none", done |-> NoError, quit |-> FALSE]

\* The variables of the components modelled next to the engine
nonEngine == <<lockVars, readerVars, privVars, sudoVars, connVars, appVars, uiVars,
               tuiVars>>

\* The same and the ctx
nonRun == <<ctxVars, nonEngine>>

\* The engine's variables but the store
engineRest == <<phases, inputHandler, regErr, pc, idx, startIndex, pending,
                phaseErr, result, events, invoked, handlerLog, app>>

\* All but the variables of the concurrent Context
outsideStore ==
    <<ctxVars, engineRest, readerVars, privVars, sudoVars, appVars, uiVars, connVars, tuiVars>>

\* All but the variables of the typed reads
outsideReaders ==
    <<ctxVars, engineRest, lockVars, privVars, sudoVars, appVars, uiVars, connVars, tuiVars>>

\* All but the variables of the elevation resolver
outsidePriv ==
    <<ctxVars, store, engineRest, lockVars, readerVars, sudoVars, appVars, uiVars, connVars, tuiVars>>

\* All but the variables of sudoensure's Phase.Run
outsideSudo ==
    <<ctxVars, engineRest, lockVars, readerVars, privVars, appVars, uiVars, connVars, tuiVars>>

\* All but the variables of sshconnect's Phase.Run
outsideConn == <<ctxVars, engineRest, lockVars, readerVars, privVars, sudoVars, appVars,
                 uiVars, tuiVars>>

\* All but the variables of the program's pipeline runs
outsideTui == <<ctxVars, engineRest, lockVars, readerVars, privVars, sudoVars, connVars,
                appVars, uiVars>>

\* All but the variables of the App's callers
outsideApp ==
    <<ctxVars, store, engineRest, lockVars, readerVars, privVars, sudoVars, uiVars, connVars, tuiVars>>

\* All but the variables of the status line and the phase log
outsideUI ==
    <<ctxVars, store, engineRest, lockVars, readerVars, privVars, sudoVars, appVars, connVars, tuiVars>>

vars == <<phases, inputHandler, regErr, pc, idx, startIndex, store, pending,
          phaseErr, result, events, invoked, handlerLog, app, ctxVars, nonEngine>>

\* NewManager(opts...): no phases; the handler is there or not
Init ==
    /\ phases = <<>>
    /\ inputHandler \in BOOLEAN
    /\ regErr = NoError
    /\ pc = "idle"
    /\ idx = 0
    /\ startIndex = 0
    /\ store = NewContext
    /\ pending = NoError
    /\ phaseErr = NoError
    /\ result = NoError
    /\ events = [o \in 1..NumObservers |-> <<>>]
    /\ invoked = <<>>
    /\ handlerLog = <<>>
    /\ app = [started |-> FALSE, initialStartIndex |-> 0]
    /\ ctxDone = FALSE
    /\ mu = [w |-> 0, r |-> {}]
    /\ threads = [t \in Threads |-> idleThread]
    /\ history = <<>>
    /\ readout = noRead
    /\ host = [sudo |-> FALSE]
    /\ epc = "idle"
    /\ password = ""
    /\ branch = ""
    /\ sent = <<>>
    /\ resolved = <<>>
    /\ asked = <<>>
    /\ runs = <<>>
    /\ sudoRun = noSudoRun
    /\ connRun = noConnRun
    /\ pipelineActive = FALSE
    /\ prompting = FALSE
    /\ activePrompt = [meta |-> "", open |-> FALSE,
                       input |-> [ID |-> "host", Kind |-> "text", Required |-> TRUE,
                                  Default |-> <<>>]]
    /\ focus = "phases"
    /\ savedInputs = <<>>
    /\ answers = <<>>
    /\ phaseStatus = [p \in 1..2 |-> "pending"]
    /\ engines = <<>>
    /\ eventWaiters = 0
    /\ inputWaiters = 0
    /\ msgs = <<>>
    /\ starts = 0
    /\ tuiStatus = ""
    /\ lastOp = "none"
    /\ amu = 0
    /\ inFlight = FALSE
    /\ program = 0
    /\ callers = [c \in Callers |-> idleCaller]
    /\ secretValues = {}
    /\ statusMsg = [raw |-> <<>>, shown |-> <<>>, known |-> {}]
    /\ logs = <<>>

\* ------------------------------------------------------------------ Register
\* A hasPhase that looks at the most recently registered phase only
hasPhase_lastOnly(list, id) == Len(list) > 0 /\ list[Len(list)].ID = id

\* Manager.hasPhase: some registered phase reports this ID
hasPhase(list, id) == \E i \in 1..Len(list) : list[i].ID = id

\* The loop of Manager.Register over its arguments from position i on:
\* the phase list and the error the call ends with
RECURSIVE RegisterFrom(_, _, _)
RegisterFrom(list, batch, i) ==
    IF i > Len(batch) THEN [phases |-> list, err |-> NoError]
    ELSE LET p == batch[i]
         IN  IF p = NilPhase THEN RegisterFrom(list, batch, i + 1)
             ELSE IF p.ID = "" THEN [phases |-> list, err |-> ValidationError]
             ELSE IF hasPhase(list, p.ID)
                  THEN [phases |-> list, err |-> DuplicatePhaseError(p.ID)]
             ELSE RegisterFrom(Append(list, p), batch, i + 1)

\* Argument lists of one Register call
Batches == UNION { [1..n -> PhasePool] : n \in 0..MaxBatch }

\* m.Register(batch...)
Register(batch) ==
    /\ pc = "idle"
    /\ Len(phases) + Len(batch) <= MaxPhases
    /\ LET r == RegisterFrom(phases, batch, 1)
       IN  /\ phases' = r.phases
           /\ regErr' = r.err
    /\ UNCHANGED <<inputHandler, pc, idx, startIndex, store, pending, phaseErr,
                   result, events, invoked, handlerLog>>
    /\ UNCHANGED <<app, nonRun>>

\* ------------------------------------------------------------------ Run
\* A notification loop that stops after the first observer
notifyStart_firstOnly(ev, metaID) ==
    [o \in DOMAIN ev |->
        IF o = 1 THEN Append(ev[o], [event |-> "start", phase |-> metaID, err |-> NoError])
        ELSE ev[o]]

\* for each observer: obs.PhaseStarted(meta)
notifyStart(ev, metaID) ==
    [o \in DOMAIN ev |-> Append(ev[o], [event |-> "start", phase |-> metaID, err |-> NoError])]

\* A completion notification that is left out when the step failed
notifyComplete_skipOnError(ev, metaID, err) ==
    IF err # NoError THEN ev
    ELSE [o \in DOMAIN ev |-> Append(ev[o], [event |-> "complete", phase |-> metaID, err |-> err])]

\* for each observer: obs.PhaseCompleted(meta, err)
notifyComplete(ev, metaID, err) ==
    [o \in DOMAIN ev |-> Append(ev[o], [event |-> "complete", phase |-> metaID, err |-> err])]

\* m.Run(ctx, phaseCtx): the loop ranges over all of m.phases
Run ==
    /\ pc = "idle"
    /\ pc' = "loop"
    /\ idx' = 1
    /\ startIndex' = 0
    /\ regErr' = NoError
    /\ UNCHANGED <<phases, inputHandler, store, pending, phaseErr,
                   result, events, invoked, handlerLog>>
    /\ UNCHANGED <<app, nonRun>>

\* The start index RunFrom clamps to the valid range 0..len(m.phases)
clampStart(start, n) == IF start < 0 THEN 0 ELSE IF start > n THEN n ELSE start

\* m.RunFrom(ctx, phaseCtx, start): the loop ranges over m.phases[start:]
RunFrom(start) ==
    /\ pc = "idle"
    /\ pc' = "loop"
    /\ idx' = clampStart(start, Len(phases)) + 1
    /\ startIndex' = clampStart(start, Len(phases))
    /\ regErr' = NoError
    /\ UNCHANGED <<phases, inputHandler, store, pending, phaseErr,
                   result, events, invoked, handlerLog>>
    /\ UNCHANGED <<app, nonRun>>

\* model.clampStartIndex(idx), n being len(m.order)
clampStartIndex(i, n) ==
    IF n = 0 THEN 0
    ELSE IF i < 0 THEN 0
    ELSE IF i >= n THEN n - 1
    ELSE i

\* App.StartFrom(ctx, start): a negative start becomes 0; newModel needs a
\* phase and a Register without error and always installs an input handler;
\* model.Init calls startPipelineFrom(initialStartIndex), which clamps the
\* index and hands it to manager.RunFrom through runManagerCmd
StartFrom(start) ==
    /\ pc = "idle"
    /\ ~app.started
    /\ Len(phases) > 0
    /\ regErr = NoError
    /\ inputHandler
    /\ LET initial == IF start < 0 THEN 0 ELSE start
           from == clampStartIndex(initial, Len(phases))
       IN  /\ app' = [started |-> TRUE, initialStartIndex |-> initial]
           /\ idx' = clampStart(from, Len(phases)) + 1
           /\ startIndex' = clampStart(from, Len(phases))
    /\ pc' = "loop"
    /\ UNCHANGED <<phases, inputHandler, regErr, store, pending, phaseErr,
                   result, events, invoked, handlerLog>>
    /\ UNCHANGED nonRun

\* A loop that takes no further phase once the ctx is done
loopGoesOn_untilDone(done) == ~done

\* for _, phase := range m.phases: the loop head does not look at the ctx
loopGoesOn(done) == TRUE

\* Run, loop head with a phase left: meta := phase.Metadata(); m.notifyStart(meta)
LoopNotifyStart ==
    /\ pc = "loop"
    /\ idx <= Len(phases)
    /\ loopGoesOn(ctxDone)
    /\ events' = notifyStart(events, phases[idx].ID)
    /\ pc' = "execute"
    /\ UNCHANGED <<phases, inputHandler, regErr, idx, startIndex, store, pending,
                   phaseErr, result, invoked, handlerLog>>
    /\ UNCHANGED <<app, nonRun>>

\* Run, loop exhausted: return nil
LoopReturnNil ==
    /\ pc = "loop"
    /\ idx > Len(phases)
    /\ result' = NoError
    /\ pc' = "done"
    /\ UNCHANGED <<phases, inputHandler, regErr, idx, startIndex, store, pending,
                   phaseErr, events, invoked, handlerLog>>
    /\ UNCHANGED <<app, nonRun>>

\* An executePhase that calls the handler without testing it for nil
AfterRun_noNilCheck(err, hasHandler) ==
    IF err = NoError THEN "complete"
    ELSE IF IsInputRequest(err) THEN "input" ELSE "complete"

\* executePhase after phase.Run returned err: where the thread goes next.
\* "complete": executePhase returns err; "input": it calls the handler.
AfterRun(err, hasHandler) ==
    IF err = NoError THEN "complete"
    ELSE IF IsInputRequest(err)
         THEN IF hasHandler THEN "input" ELSE "complete"
         ELSE "complete"

\* executePhase, loop head: err := phase.Run(ctx, phaseCtx) and the branch on it
ExecutePhaseRun ==
    /\ pc = "execute"
    /\ LET err == PhaseRunCtx(phases[idx], store, ctxDone)
       IN  /\ invoked' = Append(invoked, [phase |-> phases[idx].ID, err |-> err,
                                          done |-> ctxDone])
           /\ pc' = AfterRun(err, inputHandler)
           /\ IF AfterRun(err, inputHandler) = "input"
              THEN pending' = AsInputRequest(err) /\ UNCHANGED phaseErr
              ELSE phaseErr' = err /\ UNCHANGED pending
    /\ UNCHANGED <<phases, inputHandler, regErr, idx, startIndex, store, result,
                   events, handlerLog>>
    /\ UNCHANGED <<app, nonRun>>

\* The store key executePhase writes the handler's value to
requestKeyID(metaID, inputErr) == inputErr.PhaseID

\* An executePhase that returns after the handler's value
afterValue_returns == "complete"

\* executePhase after SetInput: continue, the loop calls phase.Run again
afterValue == "execute"

\* executePhase: m.inputHandler.RequestInput(meta, inputErr.Input, inputErr.Reason)
\* returned a value: SetInput(phaseCtx, inputErr.PhaseID, inputErr.Input.ID, value); continue
HandlerReturnsValue(value) ==
    /\ pc = "input"
    /\ Len(handlerLog) < MaxHandlerCalls
    /\ handlerLog' = Append(handlerLog,
          [meta |-> phases[idx].ID, request |-> pending, at |-> Len(invoked),
           value |-> value, err |-> NoError])
    /\ store' = SetInput(store, requestKeyID(phases[idx].ID, pending), pending.Input, value)
    /\ pc' = afterValue
    /\ UNCHANGED <<phases, inputHandler, regErr, idx, startIndex, pending, phaseErr,
                   result, events, invoked>>
    /\ UNCHANGED <<app, nonRun>>

\* executePhase: RequestInput returned handlerErr: return handlerErr
HandlerReturnsError ==
    /\ pc = "input"
    /\ Len(handlerLog) < MaxHandlerCalls
    /\ handlerLog' = Append(handlerLog,
          [meta |-> phases[idx].ID, request |-> pending, at |-> Len(invoked),
           value |-> "", err |-> handlerCancelled])
    /\ phaseErr' = handlerCancelled
    /\ pc' = "complete"
    /\ UNCHANGED <<phases, inputHandler, regErr, idx, startIndex, store, pending,
                   result, events, invoked>>
    /\ UNCHANGED <<app, nonRun>>

\* A loop that steps over the phase following a successful one
nextIndex_skip(i) == i + 2

\* The index the Run loop moves to after the phase at i succeeded
nextIndex(i) == i + 1

\* A loop that goes on to the next phase whatever executePhase returned
returnsError_never(err) == FALSE

\* Run: if err != nil the loop ends and Run returns
returnsError(err) == err # NoError

\* Run, after executePhase returned: m.notifyComplete(meta, err); on an
\* error return PhaseExecutionError{Phase: meta, Err: err}, else go on
NotifyComplete ==
    /\ pc = "complete"
    /\ events' = notifyComplete(events, phases[idx].ID, phaseErr)
    /\ IF returnsError(phaseErr)
       THEN /\ result' = PhaseExecutionError(phases[idx].ID, phaseErr)
            /\ pc' = "done"
            /\ UNCHANGED idx
       ELSE /\ idx' = nextIndex(idx)
            /\ pc' = "loop"
            /\ UNCHANGED result
    /\ UNCHANGED <<phases, inputHandler, regErr, startIndex, store, pending,
                   phaseErr, invoked, handlerLog>>
    /\ UNCHANGED <<app, nonRun>>

\* start arguments tried with RunFrom
Starts == (0 - 1)..(MaxPhases + 1)

\* start arguments tried with App.StartFrom: negative, the first phase, the
\* second (beyond the end of a single phase) and beyond every end
AppStarts == {0 - 1, 0, 1, MaxPhases + 1}

Next ==
    \/ \E batch \in Batches : Register(batch)
    \/ Run
    \/ \E start \in Starts : RunFrom(start)
    \/ \E start \in AppStarts : StartFrom(start)
    \/ LoopNotifyStart
    \/ LoopReturnNil
    \/ ExecutePhaseRun
    \/ \E value \in HandlerValues : HandlerReturnsValue(value)
    \/ HandlerReturnsError
    \/ NotifyComplete

Spec == Init /\ [][Next]_vars

\* Argument lists of one Register call for the pipeline whose ctx is cancelled
CtxBatches == UNION { [1..n -> CtxPool] : n \in 1..MaxBatch }

\* The caller's cancel(): the ctx is done from now on; nothing of the manager
\* is told
CancelRunCtx ==
    /\ ~ctxDone
    /\ ctxDone' = TRUE
    /\ UNCHANGED <<phases, inputHandler, regErr, pc, idx, startIndex, store, pending,
                   phaseErr, result, events, invoked, handlerLog, app, nonEngine>>

NextCancel ==
    \/ \E batch \in CtxBatches : Register(batch)
    \/ Run
    \/ LoopNotifyStart
    \/ LoopReturnNil
    \/ ExecutePhaseRun
    \/ \E value \in HandlerValues : HandlerReturnsValue(value)
    \/ HandlerReturnsError
    \/ NotifyComplete
    \/ CancelRunCtx

\* A Run whose caller may cancel the ctx at any moment
SpecCancel == Init /\ [][NextCancel]_vars

\* --------------------------------------------- Context under concurrent use
\* Keys the goroutines use
Keys == {"ssh:client", "phase:B:input:token"}

\* Values they set: call number n sets the n-th of them (going round), so
\* that successive Sets differ in what they write
Vals == <<"abc123", "hunter2", "s3cret", "tok4", "pw5">>

\* A goroutine is between acquiring and releasing c.mu
InCriticalSection(t) == threads[t].pc \in {"locked", "accessed"}

\* The calls begun so far
Called == Len(history) + Cardinality({t \in Threads : threads[t].pc \in {"call", "locked"}})

\* The calls that have returned
Returned ==
    {history[i].id : i \in 1..Len(history)}
        \ {threads[t].id : t \in {u \in Threads : threads[u].pc = "accessed"}}

\* The value the n-th call sets
ValueOf(n) == Vals[((n - 1) % Len(Vals)) + 1]

\* A goroutine enters c.Set(key, value)
CallSet(t, key) ==
    /\ threads[t].pc = "idle"
    /\ Called < MaxOps
    /\ threads' = [threads EXCEPT ![t] =
          [pc |-> "call", op |-> "Set", key |-> key, value |-> ValueOf(Called + 1),
           id |-> Called + 1, pre |-> Returned]]
    /\ UNCHANGED <<mu, history, store, outsideStore>>

\* A goroutine enters c.Get(key)
CallGet(t, key) ==
    /\ threads[t].pc = "idle"
    /\ Called < MaxOps
    /\ threads' = [threads EXCEPT ![t] =
          [pc |-> "call", op |-> "Get", key |-> key, value |-> "",
           id |-> Called + 1, pre |-> Returned]]
    /\ UNCHANGED <<mu, history, store, outsideStore>>

\* A Context whose Set takes the read lock as Get does
lockMode_readLock(op) == "RLock"

\* The lock each method takes: Set c.mu.Lock(), Get c.mu.RLock()
lockMode(op) == IF op = "Set" THEN "Lock" ELSE "RLock"

\* c.mu.Lock() returns: no goroutine holds the mutex in either mode
Lock(t) ==
    /\ threads[t].pc = "call"
    /\ lockMode(threads[t].op) = "Lock"
    /\ mu.w = 0 /\ mu.r = {}
    /\ mu' = [mu EXCEPT !.w = t]
    /\ threads' = [threads EXCEPT ![t].pc = "locked"]
    /\ UNCHANGED <<history, store, outsideStore>>

\* c.mu.RLock() returns: no goroutine holds the write lock
RLock(t) ==
    /\ threads[t].pc = "call"
    /\ lockMode(threads[t].op) = "RLock"
    /\ mu.w = 0
    /\ mu' = [mu EXCEPT !.r = @ \cup {t}]
    /\ threads' = [threads EXCEPT ![t].pc = "locked"]
    /\ UNCHANGED <<history, store, outsideStore>>

\* The map access of t would run while another goroutine is inside its own
\* and one of the two writes: a data race on c.store
Racing(t) ==
    \E u \in Threads \ {t} :
        /\ InCriticalSection(u)
        /\ "Set" \in {threads[t].op, threads[u].op}

\* What a racing map write can leave behind: the write or a lost write
RacingWrites(t) == {Set(store, threads[t].key, threads[t].value), store}

\* What a racing map read can return: any value, or nothing
RacingReads(t) ==
    {Get(store, threads[t].key), [val |-> "", ok |-> FALSE]}
        \cup {[val |-> Vals[n], ok |-> TRUE] : n \in DOMAIN Vals}

\* The entry a call leaves in the history at its map access
Entry(t, val, ok) ==
    [id |-> threads[t].id, op |-> threads[t].op, key |-> threads[t].key,
     value |-> val, ok |-> ok, pre |-> threads[t].pre]

\* Set, inside the lock: c.store[key] = value
SetAccess(t) ==
    /\ threads[t].pc = "locked"
    /\ threads[t].op = "Set"
    /\ \/ /\ store' \in (IF Racing(t) THEN RacingWrites(t)
                          ELSE {Set(store, threads[t].key, threads[t].value)})
          /\ history' = Append(history, Entry(t, threads[t].value, TRUE))
          /\ threads' = [threads EXCEPT ![t].pc = "accessed"]
       \/ /\ Racing(t)
          /\ threads' = [threads EXCEPT ![t].pc = "fatal"]
          /\ UNCHANGED <<store, history>>
    /\ UNCHANGED <<mu, outsideStore>>

\* Get, inside the lock: val, ok := c.store[key]
GetAccess(t) ==
    /\ threads[t].pc = "locked"
    /\ threads[t].op = "Get"
    /\ \/ \E got \in (IF Racing(t) THEN RacingReads(t)
                       ELSE {Get(store, threads[t].key)}) :
              /\ history' = Append(history, Entry(t, got.val, got.ok))
              /\ threads' = [threads EXCEPT ![t].pc = "accessed"]
       \/ /\ Racing(t)
          /\ threads' = [threads EXCEPT ![t].pc = "fatal"]
          /\ UNCHANGED history
    /\ UNCHANGED <<mu, store, outsideStore>>

\* Set returns: the deferred c.mu.Unlock()
Unlock(t) ==
    /\ threads[t].pc = "accessed"
    /\ lockMode(threads[t].op) = "Lock"
    /\ mu' = [mu EXCEPT !.w = 0]
    /\ threads' = [threads EXCEPT ![t] = idleThread]
    /\ UNCHANGED <<history, store, outsideStore>>

\* Get returns: the deferred c.mu.RUnlock()
RUnlock(t) ==
    /\ threads[t].pc = "accessed"
    /\ lockMode(threads[t].op) = "RLock"
    /\ mu' = [mu EXCEPT !.r = @ \ {t}]
    /\ threads' = [threads EXCEPT ![t] = idleThread]
    /\ UNCHANGED <<history, store, outsideStore>>

\* A fresh Context and no engine at work
InitStore == Init /\ ~inputHandler

NextStore ==
    \/ \E t \in Threads, key \in Keys : CallSet(t, key)
    \/ \E t \in Threads, key \in Keys : CallGet(t, key)
    \/ \E t \in Threads : Lock(t)
    \/ \E t \in Threads : RLock(t)
    \/ \E t \in Threads : SetAccess(t)
    \/ \E t \in Threads : GetAccess(t)
    \/ \E t \in Threads : Unlock(t)
    \/ \E t \in Threads : RUnlock(t)

SpecStore == InitStore /\ [][NextStore]_vars

\* ------------------------------------------------------- typed Context reads
\* Dynamic types of the values phases keep in the Context
strPassword == [type |-> "string", v |-> "hunter2"]
strEmpty == [type |-> "string", v |-> ""]
nilValue == [type |-> "nil", v |-> "nil"]
sshClient == [type |-> "*ssh.Client", v |-> "client"]
elevatedClient == [type |-> "*privilege.ElevatedClient", v |-> "elevated"]
nilElevatedClient == [type |-> "*privilege.ElevatedClient", v |-> "nil"]

TypedVals == {strPassword, strEmpty, nilValue, sshClient, elevatedClient, nilElevatedClient}

\* Types a reader asks for
Types == {"string", "*ssh.Client", "*privilege.ElevatedClient"}

\* sshconnect.ContextKeySSHClient, sshconnect.ContextKeySSHPassword,
\* sudoensure.ContextKeyElevatedClient and sudo_ensure's input key
ContextKeySSHClient == "ssh:client"
ContextKeySSHPassword == "ssh:password"
ContextKeyElevatedClient == "sudo:elevated_client"
InputPasswordKey == inputKey("sudo_ensure", "password")

TypedKeys == {ContextKeySSHClient, ContextKeySSHPassword, ContextKeyElevatedClient,
              InputPasswordKey}

\* var zero T
Zero(T) == [type |-> T, v |-> IF T = "string" THEN "" ELSE "nil"]

\* A type assertion that lets every value through
TypeAssert_any(val, T) == [val |-> val, ok |-> TRUE]

\* casted, ok := val.(T): the comma-ok form, false on another dynamic type
\* and on a nil interface value
TypeAssert(val, T) ==
    IF val.type = T THEN [val |-> val, ok |-> TRUE]
    ELSE [val |-> Zero(T), ok |-> FALSE]

\* phasedapp.GetContext[T](ctx, key)
GetContext(c, key, T) ==
    LET got == Get(c, key)
    IN  IF ~got.ok THEN [val |-> Zero(T), ok |-> FALSE]
        ELSE LET casted == TypeAssert(got.val, T)
             IN  IF ~casted.ok THEN [val |-> Zero(T), ok |-> FALSE]
                 ELSE [val |-> casted.val, ok |-> TRUE]

\* phasedapp.MustGetContext[T](ctx, key): panics when GetContext reports false
MustGetContext(c, key, T) ==
    LET got == GetContext(c, key, T)
    IN  [val |-> got.val, panic |-> ~got.ok]

\* ValidationError{Reason: reason}
ValidationErrorOf(reason) == [type |-> "ValidationError", Reason |-> reason]

\* sudoensure Phase.resolvePassword(ctx): the password and the error
resolvePassword(c) ==
    LET stored == Get(c, ContextKeySSHPassword)
        input == GetInput(c, "sudo_ensure", "password")
    IN  IF stored.ok /\ TypeAssert(stored.val, "string").ok
              /\ TypeAssert(stored.val, "string").val.v # ""
        THEN [password |-> TypeAssert(stored.val, "string").val.v, err |-> NoError]
        ELSE IF input.ok /\ TypeAssert(input.val, "string").ok
                   /\ TypeAssert(input.val, "string").val.v # ""
        THEN [password |-> TypeAssert(input.val, "string").val.v, err |-> NoError]
        ELSE [password |-> "",
              err |-> InputRequestError("sudo_ensure", "password", "sudo password required")]

\* sudoensure Phase.Run up to its use of the ssh client
sudoClientFromContext(c) ==
    LET clientVal == Get(c, ContextKeySSHClient)
    IN  IF ~clientVal.ok
        THEN ValidationErrorOf("SSH connection phase must complete before sudo phase")
        ELSE LET casted == TypeAssert(clientVal.val, "*ssh.Client")
             IN  IF ~casted.ok \/ casted.val.v = "nil"
                 THEN ValidationErrorOf("invalid ssh client in context")
                 ELSE NoError

\* pythonensure Phase.Run up to its use of the elevated client
elevatedFromContext(c) ==
    LET elevatedVal == Get(c, ContextKeyElevatedClient)
    IN  IF ~elevatedVal.ok
        THEN ValidationErrorOf("sudo phase must complete before ensuring python")
        ELSE LET casted == TypeAssert(elevatedVal.val, "*privilege.ElevatedClient")
             IN  IF ~casted.ok \/ casted.val.v = "nil"
                 THEN ValidationErrorOf("invalid elevated client in context")
                 ELSE NoError

\* A typed read's record
Read(reader, key, T, val, ok, panic, err) ==
    [reader |-> reader, key |-> key, T |-> T, val |-> val, ok |-> ok,
     panic |-> panic, err |-> err]

\* phasedapp.SetContext / Context.Set with a value of any type
SetContext(key, value) ==
    /\ store' = Set(store, key, value)
    /\ readout' = noRead
    /\ UNCHANGED outsideReaders

\* A phase calls GetContext[T](ctx, key)
ReadGetContext(key, T) ==
    /\ LET got == GetContext(store, key, T)
       IN  readout' = Read("GetContext", key, T, got.val, got.ok, FALSE, NoError)
    /\ UNCHANGED <<store, outsideReaders>>

\* A phase calls MustGetContext[T](ctx, key)
ReadMustGetContext(key, T) ==
    /\ LET got == MustGetContext(store, key, T)
       IN  readout' = Read("MustGetContext", key, T, got.val, ~got.panic, got.panic, NoError)
    /\ UNCHANGED <<store, outsideReaders>>

\* sudo_ensure resolves its password
ReadResolvePassword ==
    /\ LET got == resolvePassword(store)
       IN  readout' = Read("resolvePassword", ContextKeySSHPassword, "string",
                           [type |-> "string", v |-> got.password],
                           got.err = NoError, FALSE, got.err)
    /\ UNCHANGED <<store, outsideReaders>>

\* sudo_ensure reads the ssh client
ReadSudoClient ==
    /\ LET err == sudoClientFromContext(store)
       IN  readout' = Read("sudoensure.Run", ContextKeySSHClient, "*ssh.Client",
                           Zero("*ssh.Client"), err = NoError, FALSE, err)
    /\ UNCHANGED <<store, outsideReaders>>

\* python_ensure reads the elevated client
ReadElevatedClient ==
    /\ LET err == elevatedFromContext(store)
       IN  readout' = Read("pythonensure.Run", ContextKeyElevatedClient,
                           "*privilege.ElevatedClient",
                           Zero("*privilege.ElevatedClient"), err = NoError, FALSE, err)
    /\ UNCHANGED <<store, outsideReaders>>

\* A fresh Context and no engine at work
InitReaders == Init /\ ~inputHandler

NextReaders ==
    \/ \E key \in TypedKeys, value \in TypedVals : SetContext(key, value)
    \/ \E key \in TypedKeys, T \in Types : ReadGetContext(key, T)
    \/ \E key \in TypedKeys, T \in Types : ReadMustGetContext(key, T)
    \/ ReadResolvePassword
    \/ ReadSudoClient
    \/ ReadElevatedClient

SpecReaders == InitReaders /\ [][NextReaders]_vars

\* ------------------------------------------------------- elevation resolver
\* elevationMethod
methodSudo == "sudo"
methodSu == "su"

\* The errors of package privilege
NilClientError == [type |-> "NilClientError"]
PasswordError == [type |-> "PasswordError", Reason |-> "password must not be empty"]
SudoPermissionError(stderr) == [type |-> "SudoPermissionError", Stderr |-> stderr]
SudoNotInstalledError(stderr) == [type |-> "SudoNotInstalledError", Stderr |-> stderr]
SudoAuthenticationError == [type |-> "SudoAuthenticationError"]
SudoUnknownError(stderr) == [type |-> "SudoUnknownError", Stderr |-> stderr]
SuAuthenticationError == [type |-> "SuAuthenticationError"]
SuUnavailableError(stderr) == [type |-> "SuUnavailableError", Stderr |-> stderr]
EnsureSudoError(stderr) == [type |-> "EnsureSudoError", Stderr |-> stderr]

\* What runner.Run returned: err == nil, the stderr text as the set of the
\* fragments it contains, and what the command did on the host: whether a
\* package manager was run ("none", "ok", "failed") and whether sudo is
\* installed afterwards
Response(ok, stderr, pkg, sudoAfter) ==
    [ok |-> ok, stderr |-> stderr, pkg |-> pkg, sudo |-> sudoAfter]

\* strings.Contains(stderr, fragment)
Contains(stderr, fragment) == fragment \in stderr

\* The session could not be opened or run: an error and no output
TransportFailure(h) == Response(FALSE, {}, "none", h.sudo)

\* Answers of the host to `sudo -S -p '' -k bash -c 'true'`
SudoProbeResponses(h) ==
    IF h.sudo
    THEN {Response(TRUE, {}, "none", TRUE), TransportFailure(h)}
         \cup {Response(FALSE, e, "none", TRUE) :
                 e \in {{"is not in the sudoers file"}, {"may not run sudo"},
                        {"Sorry, try again."}, {"incorrect password"},
                        {"is not in the sudoers file", "Sorry, try again."},
                        {"a terminal is required"}}}
    ELSE {Response(FALSE, {"sudo: command not found"}, "none", FALSE),
          TransportFailure(h)}

\* Answers of the host to `su - root -c 'true'`
SuProbeResponses(h) ==
    {Response(TRUE, {}, "none", h.sudo), TransportFailure(h),
     Response(FALSE, {"Authentication failure"}, "none", h.sudo),
     Response(FALSE, {"su: command not found"}, "none", h.sudo)}

\* An ensureSudoScript without the `command -v sudo` test
ensureSudoScript_noCheck(h) ==
    {Response(TRUE, {}, "ok", TRUE),
     Response(FALSE, {}, "failed", h.sudo),
     Response(FALSE, {"unable to install sudo"}, "none", h.sudo)}

\* ensureSudoScript run as root: exit 0 when sudo is there; else install it
\* with the package manager found, or exit 1 when none is found
ensureSudoScript(h) ==
    IF h.sudo THEN {Response(TRUE, {}, "none", TRUE)}
    ELSE {Response(TRUE, {}, "ok", TRUE),
          Response(FALSE, {}, "failed", FALSE),
          Response(FALSE, {"unable to install sudo"}, "none", FALSE)}

\* Answers of the host to the ensure command sent through sudo or su
EnsureResponses(h) == ensureSudoScript(h) \cup {TransportFailure(h)}

\* isAuthenticationFailure(stderr)
isAuthenticationFailure(stderr) ==
    \/ Contains(stderr, "Authentication failure")
    \/ Contains(stderr, "authentication failure")
    \/ Contains(stderr, "incorrect password")

\* validateSudo: the error for the answer to the probe
validateSudo(resp) ==
    IF resp.ok THEN NoError
    ELSE IF Contains(resp.stderr, "sudo: command not found")
    THEN SudoNotInstalledError(resp.stderr)
    ELSE IF Contains(resp.stderr, "is not in the sudoers file")
            \/ Contains(resp.stderr, "may not run sudo")
    THEN SudoPermissionError(resp.stderr)
    ELSE IF isAuthenticationFailure(resp.stderr) \/ Contains(resp.stderr, "Sorry, try again.")
    THEN SudoAuthenticationError
    ELSE SudoUnknownError(resp.stderr)

\* An ensureRootViaSu that goes on after a failed su probe unless the
\* password was rejected
ensureRootViaSu_onlyAuth(resp) ==
    IF ~resp.ok /\ isAuthenticationFailure(resp.stderr)
    THEN SuAuthenticationError ELSE NoError

\* ensureRootViaSu: the error for the answer to the su probe
ensureRootViaSu(resp) ==
    IF resp.ok THEN NoError
    ELSE IF isAuthenticationFailure(resp.stderr) THEN SuAuthenticationError
    ELSE SuUnavailableError(resp.stderr)

\* An ensureSudoInstalled that takes the command's failure for success
ensureSudoInstalled_ignoresFailure(resp) == NoError

\* ensureSudoInstalled: the error for the answer to the ensure command
ensureSudoInstalled(resp) ==
    IF resp.ok THEN NoError ELSE EnsureSudoError(resp.stderr)

\* A switch that sends authentication failures to the su fallback too
switchCase_authFallsBack(err) ==
    CASE err.type = "SudoAuthenticationError" -> "permission"
      [] err.type = "SudoPermissionError" -> "permission"
      [] err.type = "SudoNotInstalledError" -> "missing"
      [] OTHER -> "return"

\* A switch that returns the permission error without trying su
switchCase_permissionReturns(err) ==
    CASE err.type = "SudoAuthenticationError" -> "return"
      [] err.type = "SudoPermissionError" -> "return"
      [] err.type = "SudoNotInstalledError" -> "missing"
      [] OTHER -> "return"

\* A switch whose default case takes the su fallback
switchCase_unknownFallsBack(err) ==
    CASE err.type = "SudoAuthenticationError" -> "return"
      [] err.type = "SudoPermissionError" -> "permission"
      [] err.type = "SudoNotInstalledError" -> "missing"
      [] OTHER -> "permission"

\* ensureElevation: the case of the switch on the first probe's error
switchCase(err) ==
    CASE err.type = "SudoAuthenticationError" -> "return"
      [] err.type = "SudoPermissionError" -> "permission"
      [] err.type = "SudoNotInstalledError" -> "missing"
      [] OTHER -> "return"

\* An ensureElevation that sends every ensure command through su
ensureMethod_alwaysSu(at) == methodSu

\* An ensureElevation that sends every ensure command through sudo
ensureMethod_alwaysSudo(at) == methodSudo

\* The method each ensureSudoInstalled call of ensureElevation is given
ensureMethod(at) == IF at = "suEnsure" THEN methodSu ELSE methodSudo

\* An ensureElevation that runs the su ensure command again instead
afterSuEnsure_again(taken) == "suEnsure"

\* ensureElevation after ensureSudoInstalled(r, methodSu, password)
\* succeeded: the permission case returns methodSu, the missing case
\* probes sudo again
afterSuEnsure(taken) == IF taken = "missing" THEN "reprobe" ELSE "return"

\* An ensureElevation that hands back the re-probe's error
reprobeFailure_returnsErr(err) == [method |-> "", err |-> err]

\* ensureElevation after the second validateSudo failed: return methodSu, nil
reprobeFailure(err) == [method |-> methodSu, err |-> NoError]

\* Command text is a sequence of pieces of text; the single quote, the one
\* character shellQuote looks for, is always a piece of its own
Quote == "'"

\* strings.ReplaceAll(value, "'", `'"'"'`)
RECURSIVE ReplaceAll(_)
ReplaceAll(value) ==
    IF value = <<>> THEN <<>>
    ELSE (IF Head(value) = Quote
          THEN <<Quote, "\"", Quote, "\"", Quote>>
          ELSE <<Head(value)>>) \o ReplaceAll(Tail(value))

\* shellQuote(value)
shellQuote(value) ==
    IF value = <<>> THEN <<Quote, Quote>>
    ELSE <<Quote>> \o ReplaceAll(value) \o <<Quote>>

\* The probe of validateSudo and ensureRootViaSu
probeCommand == <<"true">>

\* ensureSudoInstalled: fmt.Sprintf("printf %%s %s | base64 -d | bash",
\* shellQuote(encoded)), encoded the base64 of ensureSudoScript
ensureCommand ==
    <<"printf %s ">> \o shellQuote(<<"base64(ensureSudoScript)">>)
        \o <<" | base64 -d | bash">>

\* The command each kind of resolver step hands to runPrivileged
CommandOf(kind) == IF kind = "true" THEN probeCommand ELSE ensureCommand

\* A runPrivileged that pipes the password in from the command line
runPrivileged_echoPassword(method, pw, cmd) ==
    <<"echo ", pw, " | ">>
        \o (IF method = methodSudo
            THEN <<"sudo -S -p ", Quote, Quote, " -k bash -c ">>
            ELSE <<"su - root -c ">>) \o shellQuote(cmd)

\* runPrivileged: the command text for the method, <<>> for a method it
\* does not support
runPrivileged(method, pw, cmd) ==
    IF method = methodSudo
    THEN <<"sudo -S -p ", Quote, Quote, " -k bash -c ">> \o shellQuote(cmd)
    ELSE IF method = methodSu
    THEN <<"su - root -c ">> \o shellQuote(cmd)
    ELSE <<>>

\* runPrivileged: the command handed to runner.Run with password+"\n" as
\* its stdin, and the host's answer
Command(via, cmd, resp) ==
    [call |-> Len(resolved) + 1, via |-> via, cmd |-> cmd,
     text |-> runPrivileged(via, password, CommandOf(cmd)),
     stdin |-> password \o "\n", ok |-> resp.ok, stderr |-> resp.stderr,
     pkg |-> resp.pkg]

\* EnsureElevatedClient returns
Finish(method, err) ==
    /\ resolved' = Append(resolved, [method |-> method, err |-> err])
    /\ epc' = "idle"
    /\ password' = ""
    /\ branch' = ""

\* The passwords the callers hold, one per call of EnsureElevatedClient
Secrets == <<"hunter2", "tr0ub4dor", "correct horse", "pa'ss">>

\* What the n-th call of EnsureElevatedClient may be given as its password:
\* its caller's password or none
Passwords == {Secrets[(Len(resolved) % Len(Secrets)) + 1], ""}

\* A validate that lets the empty password through
validate_acceptsEmpty(pw) == NoError

\* Password.validate
validate(pw) == IF pw = "" THEN PasswordError ELSE NoError

\* The command callers hand to ElevatedClient.Run: echo 'hi'
UserCommands == {<<"echo ", Quote, "hi", Quote>>}

\* An ElevatedClient that always goes through sudo
sessionMethod_alwaysSudo(n) == methodSudo

\* The method field of the ElevatedClient the n-th call returned
sessionMethod(n) == resolved[n].method

\* The password field of the ElevatedClient the n-th call returned
sessionPassword(n) == asked[n].password

\* An administrator installs sudo on the host while no resolution runs
AdminInstallsSudo ==
    /\ epc = "idle"
    /\ ~host.sudo
    /\ host' = [host EXCEPT !.sudo = TRUE]
    /\ UNCHANGED <<epc, password, branch, sent, resolved, asked, runs, outsidePriv>>

\* EnsureElevatedClient(client, password) up to the call of ensureElevation
EnsureElevatedClient(clientIsNil, pw) ==
    /\ epc = "idle"
    /\ Len(resolved) < MaxResolves
    /\ asked' = Append(asked, [client |-> ~clientIsNil, password |-> pw])
    /\ IF clientIsNil THEN Finish("", NilClientError)
       ELSE IF validate(pw) # NoError THEN Finish("", validate(pw))
       ELSE /\ epc' = "probe"
            /\ password' = pw
            /\ branch' = ""
            /\ UNCHANGED resolved
    /\ UNCHANGED <<host, sent, runs, outsidePriv>>

\* ElevatedClient.Run(cmd) on the client the n-th call returned:
\* runPrivileged(runner, c.method, c.password, cmd)
ElevatedClientRun(n, cmd) ==
    /\ epc = "idle"
    /\ Len(runs) < MaxRuns
    /\ resolved[n].err = NoError
    /\ runs' = Append(runs, [session |-> n, via |-> sessionMethod(n), cmd |-> cmd,
                           text |-> runPrivileged(sessionMethod(n), sessionPassword(n), cmd),
                           stdin |-> sessionPassword(n) \o "\n"])
    /\ UNCHANGED <<host, epc, password, branch, sent, resolved, asked, outsidePriv>>

\* ensureElevation: the first validateSudo and the switch on its error
ValidateSudo(resp) ==
    /\ epc = "probe"
    /\ sent' = Append(sent, Command(methodSudo, "true", resp))
    /\ LET err == validateSudo(resp)
       IN  IF err = NoError
           THEN epc' = "ensureSudo" /\ UNCHANGED <<password, branch, resolved>>
           ELSE IF switchCase(err) = "return"
           THEN Finish("", err)
           ELSE /\ epc' = "suProbe"
                /\ branch' = switchCase(err)
                /\ UNCHANGED <<password, resolved>>
    /\ UNCHANGED <<host, asked, runs, outsidePriv>>

\* ensureElevation: ensureSudoInstalled(r, methodSudo, password) after a
\* successful probe, then return methodSudo
EnsureSudoInstalledViaSudo(resp) ==
    /\ epc \in {"ensureSudo", "ensureUpgrade"}
    /\ sent' = Append(sent, Command(ensureMethod(epc), "ensure", resp))
    /\ host' = [host EXCEPT !.sudo = resp.sudo]
    /\ IF ensureSudoInstalled(resp) # NoError
       THEN Finish("", ensureSudoInstalled(resp))
       ELSE Finish(methodSudo, NoError)
    /\ UNCHANGED <<asked, runs, outsidePriv>>

\* ensureElevation, permission and missing cases: ensureRootViaSu
EnsureRootViaSu(resp) ==
    /\ epc = "suProbe"
    /\ sent' = Append(sent, Command(methodSu, "true", resp))
    /\ IF ensureRootViaSu(resp) # NoError
       THEN Finish("", ensureRootViaSu(resp))
       ELSE epc' = "suEnsure" /\ UNCHANGED <<password, branch, resolved>>
    /\ UNCHANGED <<host, asked, runs, outsidePriv>>

\* ensureElevation, permission and missing cases:
\* ensureSudoInstalled(r, methodSu, password)
EnsureSudoInstalledViaSu(resp) ==
    /\ epc = "suEnsure"
    /\ sent' = Append(sent, Command(ensureMethod(epc), "ensure", resp))
    /\ host' = [host EXCEPT !.sudo = resp.sudo]
    /\ IF ensureSudoInstalled(resp) # NoError
       THEN Finish("", ensureSudoInstalled(resp))
       ELSE IF afterSuEnsure(branch) = "return"
       THEN Finish(methodSu, NoError)
       ELSE epc' = afterSuEnsure(branch) /\ UNCHANGED <<password, branch, resolved>>
    /\ UNCHANGED <<asked, runs, outsidePriv>>

\* ensureElevation, missing case: the second validateSudo
RevalidateSudo(resp) ==
    /\ epc = "reprobe"
    /\ sent' = Append(sent, Command(methodSudo, "true", resp))
    /\ IF validateSudo(resp) = NoError
       THEN epc' = "ensureUpgrade" /\ UNCHANGED <<password, branch, resolved>>
       ELSE Finish(reprobeFailure(validateSudo(resp)).method,
                   reprobeFailure(validateSudo(resp)).err)
    /\ UNCHANGED <<host, asked, runs, outsidePriv>>

\* A host without sudo and no engine at work
InitPriv == Init /\ ~inputHandler

NextPriv ==
    \/ AdminInstallsSudo
    \/ \E clientIsNil \in BOOLEAN, pw \in Passwords : EnsureElevatedClient(clientIsNil, pw)
    \/ \E n \in 1..Len(resolved), cmd \in UserCommands : ElevatedClientRun(n, cmd)
    \/ \E resp \in SudoProbeResponses(host) : ValidateSudo(resp)
    \/ \E resp \in EnsureResponses(host) : EnsureSudoInstalledViaSudo(resp)
    \/ \E resp \in SuProbeResponses(host) : EnsureRootViaSu(resp)
    \/ \E resp \in EnsureResponses(host) : EnsureSudoInstalledViaSu(resp)
    \/ \E resp \in SudoProbeResponses(host) : RevalidateSudo(resp)

SpecPriv == InitPriv /\ [][NextPriv]_vars

\* ------------------------------------------------------- sudo_ensure phase
\* errors.As(err, &target) for a target of type T: err or an error it wraps
\* is a T
RECURSIVE ErrorsAs(_, _)
ErrorsAs(err, T) ==
    IF err.type = T THEN TRUE
    ELSE IF err.type = "wrapError" THEN ErrorsAs(err.Err, T)
    ELSE FALSE

\* A shouldRequestPassword that knows sudo's rejection only
shouldRequestPassword_sudoOnly(err) == ErrorsAs(err, "SudoAuthenticationError")

\* shouldRequestPassword(err)
shouldRequestPassword(err) ==
    IF ErrorsAs(err, "SudoAuthenticationError") THEN TRUE
    ELSE ErrorsAs(err, "SuAuthenticationError")

\* The errors EnsureElevatedClient returns
ResolverErrors ==
    {NilClientError, PasswordError, SudoAuthenticationError, SuAuthenticationError}
        \cup {SudoPermissionError(e) : e \in {{"is not in the sudoers file"}}}
        \cup {SudoNotInstalledError(e) : e \in {{"sudo: command not found"}}}
        \cup {SudoUnknownError(e) : e \in {{}, {"a terminal is required"}}}
        \cup {SuUnavailableError(e) : e \in {{}, {"su: command not found"}}}
        \cup {EnsureSudoError(e) : e \in {{}, {"unable to install sudo"}}}

\* What p.ensure(client, password) may return: the elevated client, an
\* error of the resolver, or, from an ensurer put in with WithEnsurer,
\* another error or one that wraps a resolver's
EnsureOutcomes ==
    {[client |-> elevatedClient, err |-> NoError]}
        \cup {[client |-> nilElevatedClient, err |-> e] :
                e \in ResolverErrors
                      \cup {failErr, WrapError(SudoAuthenticationError),
                            WrapError(SuAuthenticationError)}}

\* A rejection that leaves the shared password in the Context
clearRejected_keeps(c) == c

\* phaseCtx.Set(sshconnect.ContextKeySSHPassword, nil) after a rejection
clearRejected(c) == Set(c, ContextKeySSHPassword, nilValue)

\* Another password the operator may type
strRetyped == [type |-> "string", v |-> "tr0ub4dor"]

\* What the input handler may return for sudo_ensure's password input
HandlerAnswers == {strPassword, strRetyped, strEmpty, nilValue}

\* No answer of the handler precedes this call of Run
noRetry == [rejected |-> FALSE, answer |-> nilValue, asked |-> FALSE]

\* The outcome of Phase.Run(ctx, phaseCtx): whether the ensurer was called,
\* the Context afterwards and the error returned
SudoPhaseRun(c, ensured) ==
    IF sudoClientFromContext(c) # NoError
    THEN [called |-> "no", store |-> c, err |-> sudoClientFromContext(c)]
    ELSE IF resolvePassword(c).err # NoError
    THEN [called |-> "no", store |-> c, err |-> resolvePassword(c).err]
    ELSE IF ensured.err # NoError
    THEN IF shouldRequestPassword(ensured.err)
         THEN [called |-> "yes",
               store |-> clearRejected(c),
               err |-> InputRequestError("sudo_ensure", "password",
                                         "password rejected; please enter a new password")]
         ELSE [called |-> "yes", store |-> c, err |-> ensured.err]
    ELSE [called |-> "yes",
          store |-> Set(Set(c, ContextKeyElevatedClient, ensured.client),
                        ContextKeySSHPassword,
                        [type |-> "string", v |-> resolvePassword(c).password]),
          err |-> NoError]

\* An earlier phase or the input handler writes the Context
SeedContext(key, value) ==
    /\ store' = Set(store, key, value)
    /\ sudoRun' = noSudoRun
    /\ UNCHANGED outsideSudo

\* The manager calls the sudo_ensure phase's Run
SudoEnsureRun(ensured) ==
    /\ LET out == SudoPhaseRun(store, ensured)
       IN  /\ store' = out.store
           /\ sudoRun' = [called |-> out.called, before |-> store,
                          ensured |-> IF out.called = "yes" THEN ensured
                                      ELSE [client |-> nilElevatedClient, err |-> NoError],
                          err |-> out.err,
                          password |-> IF out.called = "yes"
                                       THEN resolvePassword(store).password ELSE "",
                          retry |-> IF sudoRun.called = "answered"
                                    THEN sudoRun.retry ELSE noRetry]
    /\ UNCHANGED outsideSudo

\* executePhase after Run returned an InputRequestError: the handler returns
\* a value, SetInput stores it and the loop calls Run again
HandlerAnswer(value) ==
    /\ sudoRun.called \in {"yes", "no"}
    /\ IsInputRequest(sudoRun.err)
    /\ store' = SetInput(store, "sudo_ensure", "password", value)
    /\ sudoRun' = [called |-> "answered",
                   retry |-> [rejected |-> sudoRun.called = "yes", answer |-> value,
                              asked |-> TRUE]]
    /\ UNCHANGED outsideSudo

\* A fresh Context and no engine at work
InitSudo == Init /\ ~inputHandler

NextSudo ==
    \/ \E key \in TypedKeys, value \in TypedVals : SeedContext(key, value)
    \/ \E ensured \in EnsureOutcomes : SudoEnsureRun(ensured)
    \/ \E value \in HandlerAnswers : HandlerAnswer(value)

SpecSudo == InitSudo /\ [][NextSudo]_vars

\* ------------------------------------------------------- App.Start callers
\* ErrProgramRunning
ErrProgramRunning == [type |-> "errorString", msg |-> "phasedapp: program already running"]

\* An App.start whose deferred reset is in place before the inFlight test
afterReject_clears(flight, handle) == [inFlight |-> FALSE, program |-> 0]

\* App.start finding a.inFlight set: a.mu.Unlock(); return
\* ErrProgramRunning, a.inFlight and a.program as they are
afterReject(flight, handle) == [inFlight |-> flight, program |-> handle]

\* The callers inside program.Run or on their way out of App.start
Active == {c \in Callers : callers[c].pc \in {"running", "deferred", "cleanup"}}

\* Start / StartFrom up to a.mu.Lock(): newModel, whose Register calls
\* succeed for the phases this App was made with, and tea.NewProgram
AppStart(c) ==
    /\ callers[c].pc = "idle"
    /\ callers' = [callers EXCEPT ![c].pc = "lock"]
    /\ UNCHANGED <<amu, inFlight, program, outsideApp>>

\* App.start: a.mu.Lock()
StartLock(c) ==
    /\ callers[c].pc = "lock"
    /\ amu = 0
    /\ amu' = c
    /\ callers' = [callers EXCEPT ![c].pc = "check"]
    /\ UNCHANGED <<inFlight, program, outsideApp>>

\* App.start: the test of a.inFlight under a.mu, up to a.mu.Unlock()
StartCheck(c) ==
    /\ callers[c].pc = "check"
    /\ amu' = 0
    /\ IF inFlight
       THEN /\ inFlight' = afterReject(inFlight, program).inFlight
            /\ program' = afterReject(inFlight, program).program
            /\ callers' = [callers EXCEPT ![c].pc = "returned",
                                          ![c].ret = ErrProgramRunning]
       ELSE /\ inFlight' = TRUE
            /\ program' = c
            /\ callers' = [callers EXCEPT ![c].pc = "running"]
    /\ UNCHANGED outsideApp

\* program.Run: model.Init starts the pipeline, runManagerCmd's goroutine
\* calls manager.RunFrom and the phase blocks on its ctx
ProgramInit(c) ==
    /\ callers[c].pc = "running"
    /\ callers[c].pipeline = "none"
    /\ callers' = [callers EXCEPT ![c].pipeline = "blocked"]
    /\ UNCHANGED <<amu, inFlight, program, outsideApp>>

\* The owner of the ctx handed to Start cancels it
CancelCtx(c) ==
    /\ ~callers[c].cancelled
    /\ callers' = [callers EXCEPT ![c].cancelled = TRUE]
    /\ UNCHANGED <<amu, inFlight, program, outsideApp>>

\* The blocked phase sees ctx.Done() and returns ctx.Err(); RunFrom returns,
\* and Update takes the phasesFinishedMsg: pipelineActive = false,
\* done = msg.err, return m, nil
PhaseCancelled(c) ==
    /\ callers[c].pc = "running"
    /\ callers[c].pipeline = "blocked"
    /\ callers[c].cancelled
    /\ callers' = [callers EXCEPT ![c].pipeline = "finished",
                                  ![c].done = PhaseExecutionError("block", ctxCanceled)]
    /\ UNCHANGED <<amu, inFlight, program, outsideApp>>

\* The blocked phase is released and returns nil; Update takes the
\* phasesFinishedMsg
PhaseReleased(c) ==
    /\ callers[c].pc = "running"
    /\ callers[c].pipeline = "blocked"
    /\ callers' = [callers EXCEPT ![c].pipeline = "finished", ![c].done = NoError]
    /\ UNCHANGED <<amu, inFlight, program, outsideApp>>

\* Update takes a Ctrl+C key: return m, tea.Quit
KeyCtrlC(c) ==
    /\ callers[c].pc = "running"
    /\ ~callers[c].quit
    /\ callers' = [callers EXCEPT ![c].quit = TRUE]
    /\ UNCHANGED <<amu, inFlight, program, outsideApp>>

\* App.Stop(): under a.mu, a.program.Quit() unless a.program is nil
Stop ==
    /\ amu = 0
    /\ program # 0
    /\ ~callers[program].quit
    /\ callers' = [callers EXCEPT ![program].quit = TRUE]
    /\ UNCHANGED <<amu, inFlight, program, outsideApp>>

\* program.Run returns once the program was told to quit
ProgramQuits(c) ==
    /\ callers[c].pc = "running"
    /\ callers[c].quit
    /\ callers' = [callers EXCEPT ![c].pc = "deferred"]
    /\ UNCHANGED <<amu, inFlight, program, outsideApp>>

\* App.start's deferred function: a.mu.Lock()
DeferLock(c) ==
    /\ callers[c].pc = "deferred"
    /\ amu = 0
    /\ amu' = c
    /\ callers' = [callers EXCEPT ![c].pc = "cleanup"]
    /\ UNCHANGED <<inFlight, program, outsideApp>>

\* App.start's deferred function: a.program = nil; a.inFlight = false;
\* a.mu.Unlock(); then start returns runErr
DeferClear(c) ==
    /\ callers[c].pc = "cleanup"
    /\ program' = 0
    /\ inFlight' = FALSE
    /\ amu' = 0
    /\ callers' = [callers EXCEPT ![c].pc = "returned", ![c].ret = NoError]
    /\ UNCHANGED outsideApp

\* An App made by New and no engine at work
InitApp == Init /\ ~inputHandler

NextApp ==
    \/ \E c \in Callers : AppStart(c)
    \/ \E c \in Callers : CancelCtx(c)
    \/ \E c \in Callers : PhaseReleased(c)
    \/ \E c \in Callers : KeyCtrlC(c)
    \/ Stop
    \/ \E c \in Callers : StartLock(c)
    \/ \E c \in Callers : StartCheck(c)
    \/ \E c \in Callers : ProgramInit(c)
    \/ \E c \in Callers : PhaseCancelled(c)
    \/ \E c \in Callers : ProgramQuits(c)
    \/ \E c \in Callers : DeferLock(c)
    \/ \E c \in Callers : DeferClear(c)

SpecApp == InitApp /\ [][NextApp]_vars

\* The App where goroutines keep running: whoever waits for a.mu gets it,
\* a cancelled ctx is seen by the phase blocked on it, and a program told
\* to quit returns from Run
SpecAppFair == SpecApp /\ \A c \in Callers :
    /\ SF_vars(StartLock(c)) /\ WF_vars(StartCheck(c)) /\ WF_vars(ProgramInit(c))
    /\ WF_vars(PhaseCancelled(c)) /\ WF_vars(ProgramQuits(c))
    /\ SF_vars(DeferLock(c)) /\ WF_vars(DeferClear(c))

\* ------------------------------------------------- status line and phase log
\* Text is a sequence of pieces that are never split.  "[secret]"
placeholder == <<"[secret]">>

\* strings.ReplaceAll(text, old, new) for a non-empty old: the occurrences
\* of old from left to right, without overlap
RECURSIVE stringsReplaceAll(_, _, _)
stringsReplaceAll(text, old, new) ==
    IF Len(text) < Len(old) THEN text
    ELSE IF SubSeq(text, 1, Len(old)) = old
    THEN new \o stringsReplaceAll(SubSeq(text, Len(old) + 1, Len(text)), old, new)
    ELSE <<Head(text)>> \o stringsReplaceAll(Tail(text), old, new)

\* The orders in which `for secret := range m.secretValues` may go through
\* the map
RangeOrders(S) ==
    {o \in [1..Cardinality(S) -> S] : \A i, j \in DOMAIN o : o[i] = o[j] => i = j}

\* redactSecrets(text), the map ranged over in this order
RECURSIVE redactSecrets(_, _)
redactSecrets(text, order) ==
    IF text = <<>> \/ order = <<>> THEN text
    ELSE IF Head(order) = <<>> THEN redactSecrets(text, Tail(order))
    ELSE redactSecrets(stringsReplaceAll(text, Head(order), placeholder), Tail(order))

\* trackSecretValue(value) for the trimmed string submitPrompt hands over
trackSecretValue(S, value) == IF value = <<>> THEN S ELSE S \cup {value}

\* What the operator types at a prompt
Typed == {<<"hunter">>, <<"hunter", "2">>}

\* err.Error() of the errors phases return
ErrorTexts ==
    {<<"exit status 1">>,
     <<"su: rejected ", "hunter">>,
     <<"sudo: rejected ", "hunter", "2", " for root">>}

\* A line of text with what it was made from and the secrets known then
Line(raw, order) ==
    [raw |-> raw, shown |-> redactSecrets(raw, order), known |-> secretValues]

\* appendLog(state, line): the last MaxLogLines lines are kept
appendLog(lines, line) ==
    IF Len(lines) + 1 > MaxLogLines
    THEN SubSeq(Append(lines, line), Len(lines) + 2 - MaxLogLines, Len(lines) + 1)
    ELSE Append(lines, line)

\* submitPrompt for a required input of this kind: recordInput, then
\* setStatus("Input submitted")
SubmitPrompt(kind, value) ==
    /\ secretValues' = IF kind = "secret" THEN trackSecretValue(secretValues, value)
                       ELSE secretValues
    /\ \E order \in RangeOrders(secretValues') :
          statusMsg' = [raw |-> <<"Input submitted">>,
                        shown |-> redactSecrets(<<"Input submitted">>, order),
                        known |-> secretValues']
    /\ UNCHANGED <<logs, outsideUI>>

\* handlePhaseStarted: appendLog("<title> started"), setStatusf("Running <title>")
HandlePhaseStarted ==
    /\ \E order \in RangeOrders(secretValues) :
          logs' = appendLog(logs, Line(<<"Sudo started">>, order))
    /\ \E order \in RangeOrders(secretValues) :
          statusMsg' = Line(<<"Running Sudo">>, order)
    /\ UNCHANGED <<secretValues, outsideUI>>

\* handlePhaseCompleted for a failed phase: appendLog("<title> failed: <err>"),
\* setStatusf("<title> failed - <err>")
HandlePhaseFailed(err) ==
    /\ \E order \in RangeOrders(secretValues) :
          logs' = appendLog(logs, Line(<<"Sudo failed: ">> \o err, order))
    /\ \E order \in RangeOrders(secretValues) :
          statusMsg' = Line(<<"Sudo failed - ">> \o err, order)
    /\ UNCHANGED <<secretValues, outsideUI>>

\* Update, case phasesFinishedMsg with an error: setStatus(msg.err.Error())
HandlePhasesFinished(err) ==
    /\ \E order \in RangeOrders(secretValues) :
          statusMsg' = Line(err, order)
    /\ UNCHANGED <<secretValues, logs, outsideUI>>

\* restartPipeline: state.logs = nil, setStatus("Restarting pipeline");
\* m.secretValues stays
RestartPipeline ==
    /\ logs' = <<>>
    /\ \E order \in RangeOrders(secretValues) :
          statusMsg' = Line(<<"Restarting pipeline">>, order)
    /\ UNCHANGED <<secretValues, outsideUI>>

\* A fresh model and no engine at work
InitUI == Init /\ ~inputHandler

NextUI ==
    \/ \E kind \in {"secret", "text"}, value \in Typed : SubmitPrompt(kind, value)
    \/ HandlePhaseStarted
    \/ \E err \in ErrorTexts : HandlePhaseFailed(err)
    \/ \E err \in ErrorTexts : HandlePhasesFinished(err)
    \/ RestartPipeline

SpecUI == InitUI /\ [][NextUI]_vars

\* ---------------------------------------------------- ssh_connection phase
\* Texts are sequences of pieces; " " is white space and the characters of
\* a port are pieces of their own
Digits == <<"0", "1", "2", "3", "4", "5", "6", "7", "8", "9">>

IsDigit(ch) == \E d \in 1..Len(Digits) : Digits[d] = ch

DigitValue(ch) == (CHOOSE d \in 1..Len(Digits) : Digits[d] = ch) - 1

\* strings.TrimSpace
RECURSIVE TrimLeft(_)
TrimLeft(text) ==
    IF text # <<>> /\ Head(text) = " " THEN TrimLeft(Tail(text)) ELSE text

RECURSIVE TrimRight(_)
TrimRight(text) ==
    IF text # <<>> /\ text[Len(text)] = " "
    THEN TrimRight(SubSeq(text, 1, Len(text) - 1)) ELSE text

TrimSpace(text) == TrimRight(TrimLeft(text))

\* The number a string of digits denotes
RECURSIVE DecimalValue(_)
DecimalValue(digits) ==
    IF digits = <<>> THEN 0
    ELSE 10 * DecimalValue(SubSeq(digits, 1, Len(digits) - 1))
            + DigitValue(digits[Len(digits)])

\* strconv.Atoi: an optional sign and at least one digit, nothing else
Atoi(text) ==
    LET signed == text # <<>> /\ Head(text) \in {"+", "-"}
        digits == IF signed THEN Tail(text) ELSE text
    IN  IF digits = <<>> \/ \E i \in 1..Len(digits) : ~IsDigit(digits[i])
        THEN [value |-> 0, ok |-> FALSE]
        ELSE [value |-> IF signed /\ Head(text) = "-"
                        THEN 0 - DecimalValue(digits) ELSE DecimalValue(digits),
              ok |-> TRUE]

\* getInput(ctx, inputID): the trimmed text of the stored value
getInput(c, inputID) ==
    LET got == GetInput(c, "ssh_connection", inputID)
    IN  IF got.ok THEN [value |-> TrimSpace(got.val), ok |-> TRUE]
        ELSE [value |-> <<>>, ok |-> FALSE]

\* getRequiredInput(ctx, inputID, reason)
getRequiredInput(c, inputID, reason) ==
    IF ~getInput(c, inputID).ok \/ getInput(c, inputID).value = <<>>
    THEN [value |-> <<>>, err |-> InputRequestError("ssh_connection", inputID, reason)]
    ELSE [value |-> getInput(c, inputID).value, err |-> NoError]

\* port := 22
DefaultPort == 22

\* The port Run connects to, or the request for another one
portOf(c) ==
    LET got == getInput(c, "port")
    IN  IF got.ok /\ got.value # <<>>
        THEN IF ~Atoi(got.value).ok \/ Atoi(got.value).value <= 0
             THEN [value |-> 0,
                   err |-> InputRequestError("ssh_connection", "port",
                                             "port must be a positive integer")]
             ELSE [value |-> Atoi(got.value).value, err |-> NoError]
        ELSE [value |-> DefaultPort, err |-> NoError]

authMethodPassword == <<"password">>
authMethodKeyPath == <<"private_key">>

\* The switch on authMethod: the credential, or the request for what is missing
credentialOf(c) ==
    LET authMethod == getRequiredInput(c, "auth_method", "").value
    IN  CASE authMethod = authMethodPassword ->
               LET pw == getRequiredInput(c, "password",
                            "password is required for password authentication")
               IN  [cred |-> [Password |-> pw.value, KeyPath |-> <<>>], err |-> pw.err]
          [] authMethod = authMethodKeyPath ->
               LET key == getRequiredInput(c, "key_path",
                            "key path is required for private key authentication")
               IN  [cred |-> [Password |-> <<>>, KeyPath |-> key.value], err |-> key.err]
          [] OTHER ->
               [cred |-> [Password |-> <<>>, KeyPath |-> <<>>],
                err |-> InputRequestError("ssh_connection", "auth_method",
                                          "unsupported authentication method")]

\* One of Run's checks: the error it returns, NoError when it passes
checkInput(c, what) ==
    CASE what = "host" -> getRequiredInput(c, "host", "host is required").err
      [] what = "username" -> getRequiredInput(c, "username", "username is required").err
      [] what = "port" -> portOf(c).err
      [] what = "auth_method" ->
            getRequiredInput(c, "auth_method", "select an authentication method").err
      [] OTHER -> credentialOf(c).err

\* A Run that tests the port before anything else
checkOrder_portFirst == <<"port", "host", "username", "auth_method", "credential">>

\* The order of the checks in Run
checkOrder == <<"host", "username", "port", "auth_method", "credential">>

\* The error of the first check from position i on that fails
RECURSIVE firstFailure(_, _, _)
firstFailure(c, order, i) ==
    IF i > Len(order) THEN NoError
    ELSE IF checkInput(c, order[i]) # NoError THEN checkInput(c, order[i])
    ELSE firstFailure(c, order, i + 1)

\* What the Connector may return
connectFailed == [type |-> "errorString", msg |-> "connect failed"]
ConnectOutcomes == {[client |-> "client", err |-> NoError],
                    [client |-> "nil", err |-> connectFailed]}

\* The Context when the connector is called: the password case of the
\* switch has stored the password under ssh:password
beforeConnect(c) ==
    IF getRequiredInput(c, "auth_method", "").value = authMethodPassword
    THEN Set(c, "ssh:password", credentialOf(c).cred.Password)
    ELSE c

\* The outcome of Phase.Run(ctx, phaseCtx): whether the connector was called
\* and with what, the Context afterwards and the error returned
ConnPhaseRun(c, connected) ==
    LET failure == firstFailure(c, checkOrder, 1)
        args == [host |-> getInput(c, "host").value, port |-> portOf(c).value,
                 username |-> getInput(c, "username").value,
                 cred |-> credentialOf(c).cred]
    IN  IF failure # NoError
        THEN [called |-> "no", store |-> c, err |-> failure]
        ELSE IF connected.err # NoError
        THEN [called |-> "yes", args |-> args, store |-> beforeConnect(c),
              err |-> connected.err]
        ELSE [called |-> "yes", args |-> args,
              store |-> Set(Set(Set(Set(beforeConnect(c),
                            "ssh:client", connected.client),
                            "ssh:target_host", args.host),
                            "ssh:target_user", args.username),
                            "ssh:auth_method", getInput(c, "auth_method").value),
              err |-> NoError]

\* Values the operator may give for each input
InputValues ==
    [host |-> {<<"example.com">>, <<" ">>},
     username |-> {<<"deploy">>},
     port |-> {<<>>, <<"8", "0">>, <<" ", "8", "0", " ">>, <<"a", "b", "c">>,
               <<"0">>, <<"-", "1">>},
     auth_method |-> {authMethodPassword, authMethodKeyPath, <<"token">>},
     password |-> {<<"secret">>, <<>>},
     key_path |-> {<<"/tmp/id_rsa">>}]

\* The input handler or a test stores an input of the phase
SetConnInput(inputID, value) ==
    /\ store' = SetInput(store, "ssh_connection", inputID, value)
    /\ connRun' = noConnRun
    /\ UNCHANGED outsideConn

\* The manager calls the ssh_connection phase's Run
SSHConnectRun(connected) ==
    /\ LET out == ConnPhaseRun(store, connected)
       IN  /\ store' = out.store
           /\ connRun' = [called |-> out.called, before |-> store, err |-> out.err,
                          args |-> IF out.called = "yes" THEN out.args ELSE <<>>]
    /\ UNCHANGED outsideConn

NextConn ==
    \/ \E inputID \in DOMAIN InputValues :
          \E value \in InputValues[inputID] : SetConnInput(inputID, value)
    \/ \E connected \in ConnectOutcomes : SSHConnectRun(connected)

\* A fresh Context and no engine at work
InitConn == Init /\ ~inputHandler

SpecConn == InitConn /\ [][NextConn]_vars

\* ------------------------------------------------- pipeline runs of the TUI
\* The phases of the program's pipeline, by meta.ID
Pipeline == <<"connect", "prepare">>

\* The inputs the phases ask for
hostInput == [ID |-> "host", Kind |-> "text", Required |-> TRUE, Default |-> <<>>]
modeInput == [ID |-> "mode", Kind |-> "text", Required |-> FALSE, Default |-> <<"auto">>]

\* The host the first phase can connect to
GoodHost == <<"example.com">>

\* phase.Run of the phase at position at: "connect" needs a reachable host
\* and leaves the client in the Context; "prepare" needs its mode stored and
\* then succeeds or fails
TuiPhaseRun(at, c, outcome) ==
    IF Pipeline[at] = "connect"
    THEN IF GetInput(c, "connect", "host").ok /\ GetInput(c, "connect", "host").val = GoodHost
         THEN [store |-> Set(c, "ssh:client", <<"client">>), err |-> NoError,
               input |-> hostInput]
         ELSE [store |-> c, err |-> InputRequestError("connect", "host", "host is required"),
               input |-> hostInput]
    ELSE IF ~GetInput(c, "prepare", "mode").ok
         THEN [store |-> c, err |-> InputRequestError("prepare", "mode", "mode is required"),
               input |-> modeInput]
         ELSE IF outcome = "ok"
         THEN [store |-> Set(c, "prepare:done", <<"yes">>), err |-> NoError,
               input |-> modeInput]
         ELSE [store |-> c, err |-> failErr, input |-> modeInput]

\* What the operator may have typed when pressing Enter
TypedTexts == {<<" ">>, <<"example.com">>, <<"typo">>}

\* defaultString(value)
defaultString(value) == TrimSpace(value)

\* submitPrompt for a text prompt: the value it submits
submitValue(typed, input) ==
    IF TrimSpace(typed) = <<>> /\ defaultString(input.Default) # <<>>
          /\ input.Kind # "secret"
    THEN defaultString(input.Default)
    ELSE TrimSpace(typed)

\* A submitPrompt that turns down nothing
submitRefused_never(value, input) == FALSE

\* submitPrompt: if value == "" && m.activePrompt.input.Required
submitRefused(value, input) == value = <<>> /\ input.Required

\* A recordInput that keeps the first answer to an input
recordInput_keepsFirst(saved, phaseID, inputID, value) ==
    IF <<phaseID, inputID>> \in DOMAIN saved THEN saved
    ELSE [k \in (DOMAIN saved) \cup {<<phaseID, inputID>>} |->
            IF k = <<phaseID, inputID>> THEN value ELSE saved[k]]

\* recordInput: m.savedInputs[phaseID][inputID] = value
recordInput(saved, phaseID, inputID, value) ==
    [k \in (DOMAIN saved) \cup {<<phaseID, inputID>>} |->
        IF k = <<phaseID, inputID>> THEN value ELSE saved[k]]

\* restartPipeline: a new Context given every saved input by SetInput
RECURSIVE replayInputs(_, _)
replayInputs(c, saved) ==
    IF DOMAIN saved = {} THEN c
    ELSE LET k == CHOOSE x \in DOMAIN saved : TRUE
         IN  replayInputs(SetInput(c, k[1], k[2], saved[k]),
                          [x \in (DOMAIN saved) \ {k} |-> saved[x]])

\* A restartPipeline that does not look at pipelineActive
restartRefused_never(active) == FALSE

\* restartPipeline, retrySelectedPhase: if m.pipelineActive
restartRefused(active) == active

\* A goroutine of runManagerCmd at the head of manager.RunFrom(ctx, c, start)
newEngine(start) ==
    [pc |-> "notifyStart", at |-> clampStart(start, Len(Pipeline)) + 1, err |-> NoError,
     input |-> hostInput]

\* The sequence without its i-th element
RemoveAt(seq, i) == SubSeq(seq, 1, i - 1) \o SubSeq(seq, i + 1, Len(seq))

\* No prompt
noPrompt == [meta |-> "", input |-> hostInput, open |-> FALSE]

\* startPipelineFrom(start): pipelineActive = true and the batch of
\* runManagerCmd, waitPhaseEventCmd and waitInputRequestCmd
startPipelineFrom(start) ==
    /\ pipelineActive' = TRUE
    /\ engines' = Append(engines, newEngine(clampStartIndex(start, Len(Pipeline))))
    /\ eventWaiters' = eventWaiters + 1
    /\ inputWaiters' = inputWaiters + 1
    /\ starts' = starts + 1

\* model.Init: startPipelineFrom(m.initialStartIndex)
ModelInit ==
    /\ starts = 0
    /\ startPipelineFrom(0)
    /\ lastOp' = "init"
    /\ UNCHANGED <<store, prompting, activePrompt, focus, savedInputs, answers,
                   phaseStatus, msgs, tuiStatus, outsideTui>>

\* manager.notifyStart: the observer's send meets a waitPhaseEventCmd
EngNotifyStart(g) ==
    /\ engines[g].pc = "notifyStart"
    /\ eventWaiters > 0
    /\ eventWaiters' = eventWaiters - 1
    /\ msgs' = Append(msgs, [type |-> "phaseStartedMsg", phase |-> engines[g].at,
                             err |-> NoError])
    /\ engines' = [engines EXCEPT ![g].pc = "run"]
    /\ lastOp' = "engine"
    /\ UNCHANGED <<store, pipelineActive, prompting, activePrompt, focus, savedInputs,
                   answers, phaseStatus, inputWaiters, starts, tuiStatus, outsideTui>>

\* executePhase: phase.Run and the branch on its error
EngRun(g, outcome) ==
    /\ engines[g].pc = "run"
    /\ LET r == TuiPhaseRun(engines[g].at, store, outcome)
       IN  /\ store' = r.store
           /\ engines' = [engines EXCEPT
                 ![g].pc = IF IsInputRequest(r.err) THEN "send" ELSE "notifyComplete",
                 ![g].err = r.err,
                 ![g].input = r.input]
    /\ lastOp' = "engine"
    /\ UNCHANGED <<pipelineActive, prompting, activePrompt, focus, savedInputs, answers,
                   phaseStatus, eventWaiters, inputWaiters, msgs, starts, tuiStatus,
                   outsideTui>>

\* RequestInput: h.requests <- req meets a waitInputRequestCmd, whose
\* inputRequestMsg is on its way to Update; the caller waits on h.responses
EngRequestInput(g) ==
    /\ engines[g].pc = "send"
    /\ inputWaiters > 0
    /\ inputWaiters' = inputWaiters - 1
    /\ msgs' = Append(msgs, [type |-> "inputRequestMsg", phase |-> engines[g].at,
                             err |-> NoError])
    /\ engines' = [engines EXCEPT ![g].pc = "recv"]
    /\ lastOp' = "engine"
    /\ UNCHANGED <<store, pipelineActive, prompting, activePrompt, focus, savedInputs,
                   answers, phaseStatus, eventWaiters, starts, tuiStatus, outsideTui>>

\* manager.notifyComplete and what RunFrom does next: the following phase,
\* or return on an error and after the last phase
EngNotifyComplete(g) ==
    /\ engines[g].pc = "notifyComplete"
    /\ eventWaiters > 0
    /\ eventWaiters' = eventWaiters - 1
    /\ msgs' = Append(msgs, [type |-> "phaseCompletedMsg", phase |-> engines[g].at,
                             err |-> engines[g].err])
    /\ engines' = [engines EXCEPT
          ![g].pc = IF engines[g].err # NoError \/ engines[g].at = Len(Pipeline)
                    THEN "return" ELSE "notifyStart",
          ![g].at = IF engines[g].err # NoError THEN @ ELSE @ + 1]
    /\ lastOp' = "engine"
    /\ UNCHANGED <<store, pipelineActive, prompting, activePrompt, focus, savedInputs,
                   answers, phaseStatus, inputWaiters, starts, tuiStatus, outsideTui>>

\* runManagerCmd: RunFrom returned; phasesFinishedMsg{err} goes to Update
EngReturn(g) ==
    /\ engines[g].pc = "return"
    /\ msgs' = Append(msgs, [type |-> "phasesFinishedMsg", phase |-> 0,
                             err |-> engines[g].err])
    /\ engines' = RemoveAt(engines, g)
    /\ lastOp' = "engine"
    /\ UNCHANGED <<store, pipelineActive, prompting, activePrompt, focus, savedInputs,
                   answers, phaseStatus, eventWaiters, inputWaiters, starts, tuiStatus,
                   outsideTui>>

\* Update, cases phaseStartedMsg and phaseCompletedMsg: the phase's status,
\* and another waitPhaseEventCmd
UpdatePhaseEvent(i) ==
    /\ msgs[i].type \in {"phaseStartedMsg", "phaseCompletedMsg"}
    /\ msgs' = RemoveAt(msgs, i)
    /\ phaseStatus' = [phaseStatus EXCEPT ![msgs[i].phase] =
          IF msgs[i].type = "phaseStartedMsg" THEN "running"
          ELSE IF msgs[i].err # NoError THEN "failed" ELSE "success"]
    /\ eventWaiters' = eventWaiters + 1
    /\ tuiStatus' = "phase event"
    /\ lastOp' = "event"
    /\ UNCHANGED <<store, pipelineActive, prompting, activePrompt, focus, savedInputs,
                   answers, engines, inputWaiters, starts, outsideTui>>

\* Update, case inputRequestMsg: preparePrompt
UpdateInputRequest(i) ==
    /\ msgs[i].type = "inputRequestMsg"
    /\ msgs' = RemoveAt(msgs, i)
    /\ activePrompt' = [meta |-> Pipeline[msgs[i].phase],
                        input |-> IF Pipeline[msgs[i].phase] = "connect"
                                  THEN hostInput ELSE modeInput,
                        open |-> TRUE]
    /\ prompting' = TRUE
    /\ focus' = "prompt"
    /\ tuiStatus' = "needs input"
    /\ lastOp' = "prepare"
    /\ UNCHANGED <<store, pipelineActive, savedInputs, answers, phaseStatus, engines,
                   eventWaiters, inputWaiters, starts, outsideTui>>

\* Update, case phasesFinishedMsg: pipelineActive = false
UpdatePhasesFinished(i) ==
    /\ msgs[i].type = "phasesFinishedMsg"
    /\ msgs' = RemoveAt(msgs, i)
    /\ pipelineActive' = FALSE
    /\ tuiStatus' = IF msgs[i].err # NoError THEN "failed" ELSE "All phases completed"
    /\ lastOp' = "finished"
    /\ UNCHANGED <<store, prompting, activePrompt, focus, savedInputs, answers,
                   phaseStatus, engines, eventWaiters, inputWaiters, starts, outsideTui>>

\* The goroutines waiting on h.responses
Receivers == {g \in 1..Len(engines) : engines[g].pc = "recv"}

\* Enter with the prompt focused: submitPrompt.  The deferred function
\* closes the prompt on every return; recordInput and respond come only
\* after the test for a required value
KeyEnterSubmit(typed) ==
    /\ prompting /\ focus = "prompt" /\ activePrompt.open
    /\ LET input == activePrompt.input
           value == submitValue(typed, input)
       IN  IF submitRefused(value, input)
           THEN /\ tuiStatus' = "Input required"
                /\ lastOp' = "submitRefused"
                /\ UNCHANGED <<store, savedInputs, answers, engines, inputWaiters>>
           ELSE /\ Receivers # {}
                /\ Len(answers) < MaxAnswers
                /\ savedInputs' = recordInput(savedInputs, activePrompt.meta, input.ID, value)
                /\ answers' = Append(answers, [phase |-> activePrompt.meta,
                                               input |-> input.ID, value |-> value])
                /\ \E g \in Receivers :
                      /\ engines' = [engines EXCEPT ![g].pc = "run"]
                      /\ store' = SetInput(SetInput(store, activePrompt.meta, input.ID, value),
                                           engines[g].err.PhaseID, engines[g].err.Input,
                                           value)
                /\ inputWaiters' = inputWaiters + 1
                /\ tuiStatus' = "Input submitted"
                /\ lastOp' = "submit"
    /\ prompting' = FALSE
    /\ activePrompt' = noPrompt
    /\ focus' = "phases"
    /\ UNCHANGED <<pipelineActive, phaseStatus, eventWaiters, msgs, starts, outsideTui>>

\* Esc while prompting: handleEscape answers the request with an error
KeyEscCancel ==
    /\ prompting
    /\ IF activePrompt.open
       THEN /\ Receivers # {}
            /\ \E g \in Receivers :
                  engines' = [engines EXCEPT ![g].pc = "notifyComplete",
                                             ![g].err = handlerCancelled]
       ELSE UNCHANGED engines
    /\ prompting' = FALSE
    /\ activePrompt' = noPrompt
    /\ focus' = "phases"
    /\ inputWaiters' = inputWaiters + 1
    /\ tuiStatus' = "Input cancelled"
    /\ lastOp' = "escape"
    /\ UNCHANGED <<store, pipelineActive, savedInputs, answers, phaseStatus,
                   eventWaiters, msgs, starts, outsideTui>>

\* Tab while prompting: toggleFocus
KeyTab ==
    /\ prompting
    /\ focus' = IF focus = "prompt" THEN "phases" ELSE "prompt"
    /\ lastOp' = "tab"
    /\ UNCHANGED <<store, pipelineActive, prompting, activePrompt, savedInputs, answers,
                   phaseStatus, engines, eventWaiters, inputWaiters, msgs, starts,
                   tuiStatus, outsideTui>>

\* Ctrl+R, r or R: restartPipeline
KeyRestart ==
    IF restartRefused(pipelineActive)
    THEN /\ tuiStatus' = "Pipeline already running"
         /\ lastOp' = "restartRefused"
         /\ UNCHANGED <<store, pipelineActive, prompting, activePrompt, focus,
                        savedInputs, answers, phaseStatus, engines, eventWaiters,
                        inputWaiters, msgs, starts, outsideTui>>
    ELSE /\ starts < MaxStarts
         /\ store' = replayInputs(NewContext, savedInputs)
         /\ phaseStatus' = [p \in DOMAIN phaseStatus |-> "pending"]
         /\ tuiStatus' = "Restarting pipeline"
         /\ startPipelineFrom(0)
         /\ lastOp' = "restart"
         /\ UNCHANGED <<prompting, activePrompt, focus, savedInputs, answers, msgs,
                        outsideTui>>

\* The action menu's retry on the selected phase: handleActionKeys and
\* retrySelectedPhase, which keeps the Context
KeyRetry(selectedPhase) ==
    /\ ~prompting /\ focus = "phases"
    /\ IF restartRefused(pipelineActive)
       THEN /\ tuiStatus' = "Cannot retry while pipeline is running"
            /\ lastOp' = "retryRefused"
            /\ UNCHANGED <<store, pipelineActive, prompting, activePrompt, focus,
                           savedInputs, answers, phaseStatus, engines, eventWaiters,
                           inputWaiters, msgs, starts, outsideTui>>
       ELSE /\ starts < MaxStarts
            /\ phaseStatus' = [p \in DOMAIN phaseStatus |->
                  IF p >= clampStartIndex(selectedPhase, Len(Pipeline)) + 1
                  THEN "pending" ELSE phaseStatus[p]]
            /\ tuiStatus' = "Retrying"
            /\ startPipelineFrom(clampStartIndex(selectedPhase, Len(Pipeline)))
            /\ lastOp' = "retry"
            /\ UNCHANGED <<store, prompting, activePrompt, focus, savedInputs, answers,
                           msgs, outsideTui>>

NextTui ==
    \/ ModelInit
    \/ \E g \in 1..Len(engines) : EngNotifyStart(g)
    \/ \E g \in 1..Len(engines), outcome \in {"ok", "fail"} : EngRun(g, outcome)
    \/ \E g \in 1..Len(engines) : EngRequestInput(g)
    \/ \E g \in 1..Len(engines) : EngNotifyComplete(g)
    \/ \E g \in 1..Len(engines) : EngReturn(g)
    \/ \E i \in 1..Len(msgs) : UpdatePhaseEvent(i)
    \/ \E i \in 1..Len(msgs) : UpdateInputRequest(i)
    \/ \E i \in 1..Len(msgs) : UpdatePhasesFinished(i)
    \/ \E typed \in TypedTexts : KeyEnterSubmit(typed)
    \/ KeyEscCancel
    \/ KeyTab
    \/ KeyRestart
    \/ \E selectedPhase \in 0..(Len(Pipeline) - 1) : KeyRetry(selectedPhase)

\* A program whose model has not been initialised
InitTui == Init /\ ~inputHandler

SpecTui == InitTui /\ [][NextTui]_vars

\* ------------------------------------------------------------------ properties
\* The IDs of a phase list, in order
IDsOf(list) == [i \in 1..Len(list) |-> list[i].ID]

\* The invocations of the phase reporting this ID
RunsOf(id) == Cardinality({i \in 1..Len(invoked) : invoked[i].phase = id})

\* Every phase.Run invocation so far returned nil
AllSucceeded == \A i \in 1..Len(invoked) : invoked[i].err = NoError

\* A terminal step error: neither nil nor an InputRequestError
IsTerminalError(err) == err # NoError /\ ~IsInputRequest(err)

\* C1: when every step succeeds, a finished Run has invoked each registered
\* step exactly once, in registration order, and returned no error.
Thm_C1_SequentialOrder ==
    (pc = "done" /\ startIndex = 0 /\ AllSucceeded)
        => /\ [i \in 1..Len(invoked) |-> invoked[i].phase] = IDsOf(phases)
           /\ result = NoError

\* C1 witness: a finished run over at least three steps that all succeeded.
Wit_C1_SequentialOrder ==
    /\ pc = "done" /\ startIndex = 0 /\ AllSucceeded
    /\ Len(phases) >= 3 /\ Len(invoked) = Len(phases)
    /\ result = NoError

\* C2: an invocation that returned a terminal (non-input) error is the last
\* invocation of the run, and Run returns a PhaseExecutionError naming that
\* step and wrapping exactly that error.
Thm_C2_StopsOnError ==
    \A i \in 1..Len(invoked) :
        IsTerminalError(invoked[i].err)
            => /\ i = Len(invoked)
               /\ pc \in {"complete", "done"}
               /\ pc = "done" =>
                    result = PhaseExecutionError(invoked[i].phase, invoked[i].err)

\* C2 witness: a run that ended on a failing step with a later step left.
Wit_C2_StopsOnError ==
    /\ pc = "done"
    /\ Len(invoked) >= 2
    /\ IsTerminalError(invoked[Len(invoked)].err)
    /\ idx < Len(phases)
    /\ result = PhaseExecutionError(phases[idx].ID, failErr)

\* The RequestInput calls made for the phase reporting this ID
CallsFor(id) == {j \in 1..Len(handlerLog) : handlerLog[j].meta = id}

\* Those of them that returned a value
OkCallsFor(id) == {j \in CallsFor(id) : handlerLog[j].err = NoError}

\* The first RequestInput call made for the phase reporting this ID
FirstCallFor(id) == CHOOSE j \in CallsFor(id) : \A k \in CallsFor(id) : j <= k

\* The run has reached the phase at index i and executePhase returned for it
Finished(i) ==
    /\ pc # "idle" /\ startIndex < i
    /\ idx > i \/ (idx = i /\ pc \in {"complete", "done"})

\* ... and it returned nil
CompletedOK(i) ==
    /\ pc # "idle" /\ startIndex < i
    /\ idx > i \/ (idx = i /\ pc = "complete" /\ phaseErr = NoError)

\* C3: a step that requests its input exactly while its step-scoped key holds
\* no value is invoked once more than the handler returned a value for it;
\* when the handler's first answer is a value, the handler is called exactly
\* once, the step is invoked exactly twice and succeeds, and a pipeline of
\* that step alone returns no error.
Thm_C3_InputRetry ==
    \A i \in 1..Len(phases) :
        phases[i].kind \in {"needsInput", "wrappedInput"} =>
            LET id == phases[i].ID
            IN  /\ CompletedOK(i) => RunsOf(id) = Cardinality(OkCallsFor(id)) + 1
                /\ (/\ CallsFor(id) # {}
                    /\ handlerLog[FirstCallFor(id)].err = NoError
                    /\ handlerLog[FirstCallFor(id)].value # "")
                       => /\ Cardinality(CallsFor(id)) = 1
                          /\ RunsOf(id) <= 2
                          /\ Finished(i) => (CompletedOK(i) \/ idx > i) /\ RunsOf(id) = 2
                          /\ (pc = "done" /\ Len(phases) = 1) => result = NoError

\* C3 witness: a finished, successful run in which such a step was invoked
\* twice around a single handler call.
Wit_C3_InputRetry ==
    /\ pc = "done" /\ result = NoError
    /\ \E i \in 1..Len(phases) :
          /\ phases[i].kind \in {"needsInput", "wrappedInput"}
          /\ RunsOf(phases[i].ID) = 2
          /\ Cardinality(CallsFor(phases[i].ID)) = 1
          /\ handlerLog[FirstCallFor(phases[i].ID)].value = "abc123"

\* C4: without an input handler, an invocation that returned an
\* InputRequestError is the only invocation of its step and the last of the
\* run, the handler is never called, and Run returns a PhaseExecutionError
\* naming that step and wrapping that InputRequestError.
Thm_C4_NoHandlerFailsFast ==
    ~inputHandler =>
        /\ handlerLog = <<>>
        /\ pc # "input"
        /\ \A i \in 1..Len(invoked) :
              IsInputRequest(invoked[i].err)
                  => /\ i = Len(invoked)
                     /\ RunsOf(invoked[i].phase) = 1
                     /\ pc \in {"complete", "done"}
                     /\ pc = "done" =>
                          result = PhaseExecutionError(invoked[i].phase, invoked[i].err)

\* C4 witness: a run without handler that ended on an input request with a
\* later step left.
Wit_C4_NoHandlerFailsFast ==
    /\ ~inputHandler /\ pc = "done"
    /\ Len(invoked) >= 2
    /\ IsInputRequest(invoked[Len(invoked)].err)
    /\ result.type = "PhaseExecutionError"
    /\ IsInputRequest(result.Err)
    /\ idx < Len(phases)

\* The store that results from the values the handler returned, written
\* under the key of the phase ID and input ID each request carried
RECURSIVE StoreOfAnswers(_)
StoreOfAnswers(log) ==
    IF log = <<>> THEN NewContext
    ELSE LET e == log[Len(log)]
             before == StoreOfAnswers(SubSeq(log, 1, Len(log) - 1))
         IN  IF e.err = NoError
             THEN Set(before, inputKey(e.request.PhaseID, e.request.Input), e.value)
             ELSE before

\* C5: a RequestInput call that returned an error is the last handler call,
\* no phase.Run invocation follows it, Run returns a PhaseExecutionError
\* naming the requesting step and wrapping the handler's error, and the
\* store holds nothing but the values of the earlier, successful calls.
Thm_C5_HandlerErrorAborts ==
    \A j \in 1..Len(handlerLog) :
        handlerLog[j].err # NoError
            => /\ j = Len(handlerLog)
               /\ Len(invoked) = handlerLog[j].at
               /\ invoked[Len(invoked)].phase = handlerLog[j].meta
               /\ pc \in {"complete", "done"}
               /\ pc = "done" =>
                    result = PhaseExecutionError(handlerLog[j].meta, handlerLog[j].err)
               /\ store = StoreOfAnswers(SubSeq(handlerLog, 1, j - 1))

\* C5 witness: a run aborted by the handler's error, with a later step left
\* and nothing stored.
Wit_C5_HandlerErrorAborts ==
    /\ pc = "done"
    /\ handlerLog # <<>>
    /\ handlerLog[Len(handlerLog)].err = handlerCancelled
    /\ result = PhaseExecutionError(phases[idx].ID, handlerCancelled)
    /\ idx < Len(phases)
    /\ DOMAIN store = {}

\* C6: when the handler returned a value for a request raised by step S,
\* the value sits in the store under S's step-scoped key for the requested
\* input before anything else runs, and the next phase.Run invoked is S's.
Claim_C6_StoredUnderStepKey ==
    \A j \in 1..Len(handlerLog) :
        handlerLog[j].err = NoError
            => LET e == handlerLog[j]
               IN  /\ Len(invoked) = e.at
                      => /\ pc = "execute"
                         /\ phases[idx].ID = e.meta
                         /\ GetInput(store, e.meta, e.request.Input)
                               = [val |-> e.value, ok |-> TRUE]
                   /\ Len(invoked) > e.at => invoked[e.at + 1].phase = e.meta

\* A start notification, a completion notification
StartEv(id) == [event |-> "start", phase |-> id, err |-> NoError]
CompleteEv(id, err) == [event |-> "complete", phase |-> id, err |-> err]

\* The run of C7: three steps, the second requesting its input until it is
\* stored, a handler that answered once with a value, Run has returned
ScenarioABC ==
    /\ pc = "done" /\ startIndex = 0
    /\ Len(phases) = 3
    /\ phases[1].kind = "ok" /\ phases[2].kind = "needsInput" /\ phases[3].kind = "ok"
    /\ Len(handlerLog) = 1
    /\ handlerLog[1].err = NoError /\ handlerLog[1].value = "abc123"

\* C7 as claimed: every observer saw start A, complete A, start B,
\* complete B (with the input request), start B, complete B, start C,
\* complete C, and Run returned no error.
Claim_C7_EventOrderPerInvocation ==
    ScenarioABC =>
        LET a == phases[1].ID
            b == phases[2].ID
            c == phases[3].ID
        IN  /\ result = NoError
            /\ \A o \in 1..NumObservers :
                  events[o] = << StartEv(a), CompleteEv(a, NoError),
                                 StartEv(b), CompleteEv(b, invoked[2].err),
                                 StartEv(b), CompleteEv(b, NoError),
                                 StartEv(c), CompleteEv(c, NoError) >>

\* C7 as amended: every observer saw start A, complete A, start B,
\* complete B (without error), start C, complete C, and Run returned no
\* error, while B's run operation was invoked twice: a step is bracketed by
\* one start and one completion notification however often it is re-invoked.
Thm_C7_EventOrderPerStep ==
    ScenarioABC =>
        LET a == phases[1].ID
            b == phases[2].ID
            c == phases[3].ID
        IN  /\ result = NoError
            /\ [i \in 1..Len(invoked) |-> invoked[i].phase] = <<a, b, b, c>>
            /\ \A o \in 1..NumObservers :
                  events[o] = << StartEv(a), CompleteEv(a, NoError),
                                 StartEv(b), CompleteEv(b, NoError),
                                 StartEv(c), CompleteEv(c, NoError) >>

\* C7 witness: the scenario's run has returned.
Wit_C7_EventOrderPerStep ==
    /\ ScenarioABC
    /\ RunsOf(phases[2].ID) = 2
    /\ store = SetInput(NewContext, phases[2].ID, "token", "abc123")

\* C8: a Register call rejected with a duplicate-ID error leaves the
\* registered list as long as it was before the call.
Claim_C8_RejectedRegisterKeepsLength ==
    [][(pc = "idle" /\ pc' = "idle" /\ regErr'.type = "DuplicatePhaseError")
          => Len(phases') = Len(phases)]_vars

\* p is a prefix of q
IsPrefix(p, q) == Len(p) <= Len(q) /\ SubSeq(q, 1, Len(p)) = p

\* C9: the registered list never holds two steps with one ID, a step with
\* an empty ID or a nil step; a Register call only appends to it, invokes
\* no phase.Run and notifies no observer.
Thm_C9_RegisterValidates ==
    /\ [](/\ \A i, j \in 1..Len(phases) : phases[i].ID = phases[j].ID => i = j
          /\ \A i \in 1..Len(phases) : phases[i].ID # "" /\ phases[i] # NilPhase)
    /\ [][(pc = "idle" /\ pc' = "idle")
             => /\ IsPrefix(phases, phases')
                /\ invoked' = invoked /\ invoked = <<>>
                /\ events' = events
                /\ \A o \in 1..NumObservers : events[o] = <<>>]_vars

\* C9 witness: after accepted and rejected Register calls.
Wit_C9_RegisterValidates ==
    /\ pc = "idle"
    /\ Len(phases) >= 2
    /\ regErr.type \in {"DuplicatePhaseError", "ValidationError"}

\* C10: a run started at index 2 of a four-step pipeline invokes and
\* reports only the steps at indices 2 and 3, the former before the latter,
\* and when it returns without error both have been invoked.
Thm_C10_RunFromSkipsLeading ==
    (pc # "idle" /\ startIndex = 2 /\ Len(phases) = 4) =>
        /\ \A i \in 1..Len(invoked) : invoked[i].phase \in {phases[3].ID, phases[4].ID}
        /\ \A i, j \in 1..Len(invoked) :
              (invoked[i].phase = phases[4].ID /\ invoked[j].phase = phases[3].ID) => j < i
        /\ \A o \in 1..NumObservers : \A i \in 1..Len(events[o]) :
              events[o][i].phase \in {phases[3].ID, phases[4].ID}
        /\ (pc = "done" /\ result = NoError)
              => /\ RunsOf(phases[3].ID) >= 1 /\ RunsOf(phases[4].ID) >= 1
                 /\ AllSucceeded =>
                      [i \in 1..Len(invoked) |-> invoked[i].phase]
                          = <<phases[3].ID, phases[4].ID>>

\* C10 witness: such a run has returned after invoking exactly two steps.
Wit_C10_RunFromSkipsLeading ==
    /\ pc = "done" /\ startIndex = 2 /\ Len(phases) = 4
    /\ result = NoError
    /\ Len(invoked) = 2

\* C11: when the App is started from an index at or beyond the number of
\* registered phases, no phase's Run is invoked and no observer receives a
\* lifecycle event.
Claim_C11_StartBeyondEndIsNoop ==
    (app.started /\ app.initialStartIndex >= Len(phases))
        => /\ invoked = <<>>
           /\ \A o \in DOMAIN events : events[o] = <<>>

\* The steps the run has invoked, each once, in the order of their first
\* invocation
RECURSIVE StepsInvoked(_)
StepsInvoked(n) ==
    IF n = 0 THEN <<>>
    ELSE LET before == StepsInvoked(n - 1)
         IN  IF n > 1 /\ invoked[n - 1].phase = invoked[n].phase
             THEN before
             ELSE Append(before, invoked[n].phase)

\* The phases of the start notifications an observer received, in order
StartsSeen(ev) == [k \in 1..((Len(ev) + 1) \div 2) |-> ev[2 * k - 1].phase]

\* C12: every observer receives, for each step the engine runs, one start
\* notification before the step's first invocation and one completion
\* notification after its last, carrying the error executePhase returned
\* (none on success) and delivered before the next step's start; starts
\* and completions strictly alternate, and a failing step still gets its
\* completion.
Thm_C12_ObserverBrackets ==
    \A o \in DOMAIN events :
        LET ev == events[o]
            n == Len(ev)
        IN  /\ \A k \in 1..n :
                  IF k % 2 = 1
                  THEN ev[k].event = "start"
                  ELSE /\ ev[k].event = "complete"
                       /\ ev[k].phase = ev[k - 1].phase
                       /\ k < n => ev[k].err = NoError
            /\ pc \in {"execute", "input", "complete"}
                  => n % 2 = 1 /\ ev[n].phase = phases[idx].ID
            /\ pc \in {"idle", "loop", "done"} => n % 2 = 0
            /\ LET ran == StepsInvoked(Len(invoked))
                   seen == StartsSeen(ev)
               IN  /\ Len(ran) <= Len(seen)
                   /\ Len(seen) <= Len(ran) + 1
                   /\ \A k \in 1..Len(ran) : ran[k] = seen[k]
                   /\ pc \in {"input", "complete", "done"} => Len(seen) = Len(ran)
            /\ (pc = "done" /\ result # NoError)
                  => /\ n >= 2
                     /\ ev[n] = [event |-> "complete", phase |-> result.Phase,
                                 err |-> result.Err]
                     /\ result.Err = phaseErr

\* C12 witness: a run that ended on a failing second step: every observer
\* holds start/complete of the first step and start/complete-with-error of
\* the failing one.
Wit_C12_ObserverBrackets ==
    /\ pc = "done" /\ result # NoError
    /\ \A o \in DOMAIN events :
          /\ Len(events[o]) = 4
          /\ events[o][2].err = NoError
          /\ events[o][3].event = "start"
          /\ events[o][4] = [event |-> "complete", phase |-> phases[idx].ID,
                              err |-> failErr]

\* The Set calls on this key among the first n entries of the history
SetsBefore(n, key) ==
    {j \in 1..n : history[j].op = "Set" /\ history[j].key = key}

\* What a map that took the first n calls of the history one at a time
\* holds under this key
Latest(n, key) ==
    IF SetsBefore(n, key) = {} THEN [val |-> "", ok |-> FALSE]
    ELSE LET last == CHOOSE j \in SetsBefore(n, key) : \A k \in SetsBefore(n, key) : k <= j
         IN  [val |-> history[last].value, ok |-> TRUE]

\* C13: under every interleaving of Set and Get calls from several
\* goroutines the calls take effect one at a time in one order (that of
\* their map accesses) which respects real time: a call that had returned
\* before another began precedes it; every Get(k) returns the value of the
\* latest Set(k) before it in that order and found=false only when there is
\* none; every key holds its own latest Set whatever was set under other
\* keys; and no Set is inside the critical section together with another
\* Set or a Get.
Thm_C13_AtomicMap ==
    /\ \A t, u \in Threads :
          (t # u /\ InCriticalSection(t) /\ InCriticalSection(u))
              => threads[t].op = "Get" /\ threads[u].op = "Get"
    /\ \A t \in Threads : threads[t].pc # "fatal"
    /\ \A i \in 1..Len(history) :
          /\ history[i].pre \subseteq {history[j].id : j \in 1..(i - 1)}
          /\ history[i].op = "Get" =>
                [val |-> history[i].value, ok |-> history[i].ok]
                    = Latest(i - 1, history[i].key)
    /\ \A k \in Keys : Get(store, k) = Latest(Len(history), k)
    /\ DOMAIN store \subseteq Keys

\* C13 witness: with all calls made, a Get(k) that began before a Set(k)
\* had returned came after it in the order and returned its value, and a
\* goroutine is still inside its critical section.
Wit_C13_AtomicMap ==
    /\ Len(history) = MaxOps
    /\ \E i, j \in 1..Len(history) :
          /\ i < j
          /\ history[i].op = "Set" /\ history[j].op = "Get"
          /\ history[i].key = history[j].key
          /\ history[i].id \notin history[j].pre
          /\ history[j].ok /\ history[j].value = history[i].value
    /\ \E t \in Threads : threads[t].pc = "accessed"

\* The store without these keys
Drop(c, ks) == [k \in (DOMAIN c) \ ks |-> c[k]]

\* The read found a value of another dynamic type than the one asked for
Mismatch ==
    /\ readout.reader # "none"
    /\ readout.key \in DOMAIN store
    /\ store[readout.key].type # readout.T

\* The password keys holding something that is no string
NonStringPasswords ==
    {k \in {ContextKeySSHPassword, InputPasswordKey} \cap DOMAIN store :
        store[k].type # "string"}

\* The latest typed read returned what the same read returns when every
\* key it found under another type is absent
ReadsAsAbsent ==
    /\ readout.reader = "resolvePassword" =>
            /\ resolvePassword(Drop(store, NonStringPasswords)).err = readout.err
            /\ resolvePassword(Drop(store, NonStringPasswords)).password = readout.val.v
    /\ Mismatch =>
        LET absent == Drop(store, {readout.key})
        IN  CASE readout.reader = "GetContext" ->
                    /\ ~readout.ok
                    /\ readout.val = Zero(readout.T)
                    /\ GetContext(absent, readout.key, readout.T)
                          = [val |-> readout.val, ok |-> readout.ok]
              [] readout.reader = "MustGetContext" ->
                    /\ ~readout.ok
                    /\ MustGetContext(absent, readout.key, readout.T).panic = readout.panic
              [] readout.reader = "resolvePassword" -> TRUE
              [] readout.reader = "sudoensure.Run" ->
                    /\ ~readout.ok
                    /\ readout.err.type = "ValidationError"
                    /\ sudoClientFromContext(absent).type = "ValidationError"
              [] readout.reader = "pythonensure.Run" ->
                    /\ ~readout.ok
                    /\ readout.err.type = "ValidationError"
                    /\ elevatedFromContext(absent).type = "ValidationError"

\* C14 as stated: a typed read that finds a value of another type than it
\* expects treats the key as absent (not found / validation failure) and
\* does not crash, whichever reader makes it.
Claim_C14_MismatchNeverCrashes ==
    /\ ReadsAsAbsent
    /\ Mismatch => ~readout.panic

\* C14: a typed read that finds a value of another type returns what it
\* returns when the key is absent: GetContext reports not found with the
\* zero value, resolvePassword passes over every non-string under its two
\* keys and lastly asks for the password, sudoensure's and pythonensure's
\* Run return a ValidationError, and none of these panics; MustGetContext,
\* which panics on an absent key, is the one reader that panics on the
\* mismatch.
Thm_C14_MismatchReadsAsAbsent ==
    /\ ReadsAsAbsent
    /\ Mismatch => (readout.panic <=> readout.reader = "MustGetContext")

\* C14 witness: ssh:password holds nil (as sudo_ensure leaves it after a
\* rejected password) and the input key a string: resolvePassword passes
\* over the nil and returns the string.
Wit_C14_MismatchReadsAsAbsent ==
    /\ Mismatch
    /\ readout.reader = "resolvePassword"
    /\ store[ContextKeySSHPassword] = nilValue
    /\ readout.val.v = "hunter2"
    /\ readout.err = NoError

\* The commands the n-th EnsureElevatedClient call sent, in order
CallCmds(n) == SelectSeq(sent, LAMBDA c : c.call = n)

\* The calls that have sent a command
Calls == {sent[i].call : i \in 1..Len(sent)}

\* The n-th call has returned
HasReturned(n) == n <= Len(resolved)

\* The signatures validateSudo tells apart in a failed probe's stderr
MissingSignature(c) == ~c.ok /\ Contains(c.stderr, "sudo: command not found")
PermissionSignature(c) ==
    /\ ~c.ok /\ ~MissingSignature(c)
    /\ Contains(c.stderr, "is not in the sudoers file") \/ Contains(c.stderr, "may not run sudo")
AuthSignature(c) ==
    /\ ~c.ok /\ ~MissingSignature(c) /\ ~PermissionSignature(c)
    /\ \/ Contains(c.stderr, "Authentication failure")
       \/ Contains(c.stderr, "authentication failure")
       \/ Contains(c.stderr, "incorrect password")
       \/ Contains(c.stderr, "Sorry, try again.")

\* Probes and ensure commands by the method they went through
IsProbe(c, via) == c.cmd = "true" /\ c.via = via
IsEnsure(c, via) == c.cmd = "ensure" /\ c.via = via

\* C15: when the first sudo probe of a resolution succeeds, the resolution
\* sends nothing through su: it sends the ensure command through sudo and
\* nothing more, and when that succeeds it returns method sudo without error.
Thm_C15_PrimaryFirst ==
    \A n \in Calls :
        LET cs == CallCmds(n)
        IN  (IsProbe(cs[1], methodSudo) /\ cs[1].ok)
                => /\ \A i \in 1..Len(cs) : cs[i].via = methodSudo
                   /\ Len(cs) <= 2
                   /\ Len(cs) = 2 => IsEnsure(cs[2], methodSudo)
                   /\ HasReturned(n) => Len(cs) = 2
                   /\ (HasReturned(n) /\ cs[2].ok)
                         => resolved[n] = [method |-> methodSudo, err |-> NoError]

\* C15 witness: a resolution that returned sudo after a successful probe
\* and a successful ensure command, both through sudo.
Wit_C15_PrimaryFirst ==
    /\ Len(resolved) >= 1
    /\ resolved[1] = [method |-> methodSudo, err |-> NoError]
    /\ Len(CallCmds(1)) = 2
    /\ CallCmds(1)[1].ok /\ CallCmds(1)[2].ok

\* The first sudo probe of each of the calls 1..n succeeded
ConfiguredUpTo(n) ==
    \A m \in 1..n : m \in Calls /\ IsProbe(CallCmds(m)[1], methodSudo) /\ CallCmds(m)[1].ok

\* C16 as stated: when the sudo probe succeeds in two resolutions in a row,
\* the second one sends no ensure (install) command to the host.
Claim_C16_NoSecondInstallCommand ==
    \A n \in Calls :
        (n >= 2 /\ ConfiguredUpTo(n))
            => \A i \in 1..Len(CallCmds(n)) : CallCmds(n)[i].cmd # "ensure"

\* C16: when the sudo probe succeeds in two resolutions in a row, the
\* second one sends the ensure command again, once and through sudo, but on
\* the host no package manager is run by it: the script ends at its test
\* for sudo.
Thm_C16_EnsureRunsNoInstall ==
    \A n \in Calls :
        (n >= 2 /\ ConfiguredUpTo(n))
            => /\ \A i \in 1..Len(CallCmds(n)) : CallCmds(n)[i].pkg = "none"
               /\ HasReturned(n) =>
                     /\ Len(CallCmds(n)) = 2
                     /\ IsEnsure(CallCmds(n)[2], methodSudo)

\* C16 witness: two resolutions that both returned sudo, the second having
\* sent its ensure command without a package manager being run.
Wit_C16_EnsureRunsNoInstall ==
    /\ Len(resolved) = 2
    /\ ConfiguredUpTo(2)
    /\ resolved[1].method = methodSudo /\ resolved[2].method = methodSudo
    /\ IsEnsure(CallCmds(2)[2], methodSudo) /\ CallCmds(2)[2].pkg = "none"

\* The n-th call took the fallback after this signature and its su probe
\* succeeded
FellBack(n, Sig(_)) ==
    /\ n \in Calls
    /\ Len(CallCmds(n)) >= 2
    /\ IsProbe(CallCmds(n)[1], methodSudo) /\ Sig(CallCmds(n)[1])
    /\ IsProbe(CallCmds(n)[2], methodSu) /\ CallCmds(n)[2].ok

\* C17 as stated: when the first sudo probe reports the permission
\* signature and the su probe succeeds, the resolution returns method su
\* and has sent the ensure command through su after the su probe.
Claim_C17_PermissionFallsBack ==
    \A n \in 1..Len(resolved) :
        FellBack(n, PermissionSignature)
            => /\ resolved[n] = [method |-> methodSu, err |-> NoError]
               /\ IsEnsure(CallCmds(n)[3], methodSu)

\* C17: when the first sudo probe reports the permission signature and
\* the su probe succeeds, the resolution sends the ensure command through
\* su right after the su probe; it returns method su without error when
\* that command succeeds and an EnsureSudoError, and no method, when it
\* fails; it never returns sudo.
Thm_C17_PermissionFallsBackIfEnsured ==
    \A n \in 1..Len(resolved) :
        FellBack(n, PermissionSignature)
            => /\ Len(CallCmds(n)) >= 3
               /\ IsEnsure(CallCmds(n)[3], methodSu)
               /\ resolved[n].method # methodSudo
               /\ IF CallCmds(n)[3].ok
                  THEN resolved[n] = [method |-> methodSu, err |-> NoError]
                  ELSE resolved[n] = [method |-> "",
                                      err |-> EnsureSudoError(CallCmds(n)[3].stderr)]

\* C17 witness: a resolution that returned su after the permission
\* signature, a successful su probe and a successful ensure through su.
Wit_C17_PermissionFallsBackIfEnsured ==
    /\ Len(resolved) >= 1
    /\ FellBack(1, PermissionSignature)
    /\ CallCmds(1)[3].ok
    /\ resolved[1] = [method |-> methodSu, err |-> NoError]

\* The sudo probes among these commands
SudoProbes(cs) == {i \in 1..Len(cs) : IsProbe(cs[i], methodSudo)}

\* C18: in the permission case, after the ensure command went through su,
\* the resolution probes sudo exactly once more and returns sudo when that
\* probe succeeds and su otherwise.
Claim_C18_PermissionReprobes ==
    \A n \in 1..Len(resolved) :
        (/\ FellBack(n, PermissionSignature)
         /\ Len(CallCmds(n)) >= 3 /\ CallCmds(n)[3].ok)
            => /\ Len(CallCmds(n)) >= 4
               /\ SudoProbes(CallCmds(n)) = {1, 4}
               /\ CallCmds(n)[4].ok => resolved[n].method = methodSudo
               /\ ~CallCmds(n)[4].ok => resolved[n] = [method |-> methodSu, err |-> NoError]

\* C19 as stated: in the missing case, after the ensure command went
\* through su, the resolution probes sudo exactly once more; it returns
\* sudo when that probe succeeds and su, without error, when it fails in
\* whatever way.
Claim_C19_MissingReprobes ==
    \A n \in 1..Len(resolved) :
        (/\ FellBack(n, MissingSignature)
         /\ Len(CallCmds(n)) >= 3 /\ CallCmds(n)[3].ok)
            => /\ Len(CallCmds(n)) >= 4
               /\ SudoProbes(CallCmds(n)) = {1, 4}
               /\ CallCmds(n)[4].ok => resolved[n] = [method |-> methodSudo, err |-> NoError]
               /\ ~CallCmds(n)[4].ok => resolved[n] = [method |-> methodSu, err |-> NoError]

\* C19: in the missing case, after the ensure command went through su, the
\* resolution probes sudo exactly once more.  When that probe fails in
\* whatever way, an authentication failure included, it returns su without
\* error.  When it succeeds the ensure command is sent once more, through
\* sudo: the resolution returns sudo when that succeeds and an
\* EnsureSudoError, and no method, when it fails.
Thm_C19_MissingReprobesOnce ==
    \A n \in 1..Len(resolved) :
        (/\ FellBack(n, MissingSignature)
         /\ Len(CallCmds(n)) >= 3 /\ CallCmds(n)[3].ok)
            => LET cs == CallCmds(n)
               IN  /\ Len(cs) >= 4
                   /\ SudoProbes(cs) = {1, 4}
                   /\ IsEnsure(cs[3], methodSu)
                   /\ ~cs[4].ok =>
                         /\ Len(cs) = 4
                         /\ resolved[n] = [method |-> methodSu, err |-> NoError]
                   /\ cs[4].ok =>
                         /\ Len(cs) = 5
                         /\ IsEnsure(cs[5], methodSudo)
                         /\ IF cs[5].ok
                            THEN resolved[n] = [method |-> methodSudo, err |-> NoError]
                            ELSE resolved[n] = [method |-> "",
                                                err |-> EnsureSudoError(cs[5].stderr)]

\* C19 witness: sudo missing, installed through su, and the second probe
\* rejected the password: the resolution returned su without error.
Wit_C19_MissingReprobesOnce ==
    /\ Len(resolved) >= 1
    /\ FellBack(1, MissingSignature)
    /\ Len(CallCmds(1)) = 4
    /\ CallCmds(1)[3].pkg = "ok"
    /\ AuthSignature(CallCmds(1)[4])
    /\ resolved[1] = [method |-> methodSu, err |-> NoError]

\* C20: when the first sudo probe reports the authentication signature,
\* the resolution returns a SudoAuthenticationError at once: that probe is
\* the only command it sends, so su is never probed and no ensure command
\* goes out.
Thm_C20_AuthFailsFast ==
    \A n \in Calls :
        AuthSignature(CallCmds(n)[1])
            => /\ Len(CallCmds(n)) = 1
               /\ IsProbe(CallCmds(n)[1], methodSudo)
               /\ HasReturned(n)
               /\ resolved[n] = [method |-> "", err |-> SudoAuthenticationError]

\* C20 witness: a resolution whose only command was a sudo probe answered
\* with "Sorry, try again." and that returned SudoAuthenticationError.
Wit_C20_AuthFailsFast ==
    /\ Len(resolved) >= 1
    /\ 1 \in Calls
    /\ Contains(CallCmds(1)[1].stderr, "Sorry, try again.")
    /\ AuthSignature(CallCmds(1)[1])
    /\ resolved[1].err = SudoAuthenticationError

\* A failed probe whose stderr carries none of the three signatures
UnknownSignature(c) ==
    ~c.ok /\ ~MissingSignature(c) /\ ~PermissionSignature(c) /\ ~AuthSignature(c)

\* C21: when the first sudo probe fails with a signature that is none of
\* authentication failure, permission denied and tool not found, the
\* resolution returns a SudoUnknownError that carries that probe's stderr;
\* the probe is the only command it sends, so su is never tried.
Thm_C21_UnknownFailsFast ==
    \A n \in Calls :
        UnknownSignature(CallCmds(n)[1])
            => /\ Len(CallCmds(n)) = 1
               /\ IsProbe(CallCmds(n)[1], methodSudo)
               /\ HasReturned(n)
               /\ resolved[n] = [method |-> "",
                                 err |-> SudoUnknownError(CallCmds(n)[1].stderr)]

\* C21 witness: a resolution whose only command was a sudo probe answered
\* with "a terminal is required" and that returned a SudoUnknownError with
\* that text.
Wit_C21_UnknownFailsFast ==
    /\ Len(resolved) >= 1
    /\ 1 \in Calls
    /\ UnknownSignature(CallCmds(1)[1])
    /\ Contains(CallCmds(1)[1].stderr, "a terminal is required")
    /\ resolved[1].err = SudoUnknownError({"a terminal is required"})

\* The signature ensureRootViaSu reads as a rejected password in a failed
\* su probe's stderr
SuAuthSignature(c) ==
    /\ ~c.ok
    /\ \/ Contains(c.stderr, "Authentication failure")
       \/ Contains(c.stderr, "authentication failure")
       \/ Contains(c.stderr, "incorrect password")

\* The n-th call probed su as its second command and that probe failed
SuProbeFailed(n) ==
    /\ n \in Calls
    /\ Len(CallCmds(n)) >= 2
    /\ IsProbe(CallCmds(n)[2], methodSu)
    /\ ~CallCmds(n)[2].ok

\* C22: when the su probe fails the resolution ends with it: it returns a
\* SuAuthenticationError for the authentication signature and a
\* SuUnavailableError carrying the stderr for any other failure, sends no
\* ensure command and no second sudo probe, and returns no method, so no
\* ElevatedClient ever runs a command for that call.
Thm_C22_FallbackProbeFailureEnds ==
    \A n \in Calls :
        SuProbeFailed(n)
            => LET cs == CallCmds(n)
               IN  /\ Len(cs) = 2
                   /\ IsProbe(cs[1], methodSudo)
                   /\ HasReturned(n)
                   /\ resolved[n].method = ""
                   /\ resolved[n].err =
                        IF SuAuthSignature(cs[2]) THEN SuAuthenticationError
                        ELSE SuUnavailableError(cs[2].stderr)
                   /\ \A i \in 1..Len(runs) : runs[i].session # n

\* C22 witness: two resolutions on a host without sudo whose su probes
\* failed, one with "Authentication failure" and one with another text,
\* returned the authentication and the unavailable error.
Wit_C22_FallbackProbeFailureEnds ==
    /\ Len(resolved) = 2
    /\ SuProbeFailed(1) /\ SuProbeFailed(2)
    /\ SuAuthSignature(CallCmds(1)[2])
    /\ Contains(CallCmds(2)[2].stderr, "su: command not found")
    /\ resolved[1].err = SuAuthenticationError
    /\ resolved[2].err = SuUnavailableError({"su: command not found"})

\* One step of a resolution in progress: a command goes out and the host's
\* answer comes back
ResolveStep ==
    \/ \E resp \in SudoProbeResponses(host) : ValidateSudo(resp)
    \/ \E resp \in EnsureResponses(host) : EnsureSudoInstalledViaSudo(resp)
    \/ \E resp \in SuProbeResponses(host) : EnsureRootViaSu(resp)
    \/ \E resp \in EnsureResponses(host) : EnsureSudoInstalledViaSu(resp)
    \/ \E resp \in SudoProbeResponses(host) : RevalidateSudo(resp)

\* The resolver where every command sent is answered: runner.Run returns,
\* and the goroutine inside ensureElevation goes on to its next statement
SpecPrivFair == SpecPriv /\ WF_vars(ResolveStep)

\* The commands of this kind and method among these
CommandsOf(cs, kind, via) ==
    {i \in 1..Len(cs) : cs[i].cmd = kind /\ cs[i].via = via}

\* Each call has probed sudo at most twice and su at most once and has sent
\* the ensure command at most once through each method
EachBranchOnce ==
    \A n \in Calls :
        LET cs == CallCmds(n)
        IN  /\ Cardinality(CommandsOf(cs, "true", methodSudo)) <= 2
            /\ Cardinality(CommandsOf(cs, "true", methodSu)) <= 1
            /\ Cardinality(CommandsOf(cs, "ensure", methodSudo)) <= 1
            /\ Cardinality(CommandsOf(cs, "ensure", methodSu)) <= 1

\* C23: every resolution returns, whatever the host answers to its
\* commands, and on the way it probes sudo at most twice, probes su at most
\* once and sends the ensure command at most once through each method.
Thm_C23_ResolutionTerminates ==
    /\ []EachBranchOnce
    /\ (epc # "idle") ~> (epc = "idle")

\* C23 witness: a resolution that returned after the longest path: sudo
\* missing, su probe, ensure through su, second sudo probe, ensure
\* through sudo.
Wit_C23_ResolutionTerminates ==
    /\ Len(resolved) >= 1
    /\ epc = "idle"
    /\ Len(CallCmds(1)) = 5
    /\ Cardinality(CommandsOf(CallCmds(1), "true", methodSudo)) = 2
    /\ Cardinality(CommandsOf(CallCmds(1), "ensure", methodSu)) = 1
    /\ Cardinality(CommandsOf(CallCmds(1), "ensure", methodSudo)) = 1

\* The host answered the first k commands of calls m and n alike
SameAnswers(m, n, k) ==
    \A j \in 1..k :
        /\ CallCmds(m)[j].ok = CallCmds(n)[j].ok
        /\ CallCmds(m)[j].stderr = CallCmds(n)[j].stderr

\* The pieces of text of a command
Pieces(text) == {text[i] : i \in 1..Len(text)}

\* C24: the password travels on stdin alone.  Every command of a
\* resolution and of an ElevatedClient has the password it was given,
\* followed by a newline, as its stdin, and a text that holds no password
\* and does not depend on it: two resolutions given different passwords
\* send the same text as long as the host gave them the same answers, and
\* two ElevatedClients of the same method send the same text for the same
\* command.
Thm_C24_PasswordOnStdinOnly ==
    /\ \A i \in 1..Len(sent) :
          /\ sent[i].stdin = asked[sent[i].call].password \o "\n"
          /\ asked[sent[i].call].password \notin Pieces(sent[i].text)
    /\ \A i \in 1..Len(runs) :
          /\ runs[i].stdin = asked[runs[i].session].password \o "\n"
          /\ asked[runs[i].session].password \notin Pieces(runs[i].text)
    /\ \A m, n \in Calls :
          \A i \in 1..Len(CallCmds(m)) :
              (i <= Len(CallCmds(n)) /\ SameAnswers(m, n, i - 1))
                  => CallCmds(m)[i].text = CallCmds(n)[i].text
    /\ \A i, j \in 1..Len(runs) :
          (runs[i].via = runs[j].via /\ runs[i].cmd = runs[j].cmd)
              => runs[i].text = runs[j].text

\* C24 witness: two resolutions given different passwords got the same
\* answers to three commands each, and the ElevatedClient of each has run a
\* command.
Wit_C24_PasswordOnStdinOnly ==
    /\ Len(resolved) = 2
    /\ asked[1].password # asked[2].password
    /\ Len(CallCmds(1)) >= 3 /\ Len(CallCmds(2)) >= 3
    /\ SameAnswers(1, 2, 3)
    /\ CallCmds(1)[3].stdin # CallCmds(2)[3].stdin
    /\ Len(runs) = 2
    /\ runs[1].session = 1 /\ runs[2].session = 2
    /\ runs[1].via = runs[2].via
    /\ runs[1].stdin # runs[2].stdin

\* Each command an ElevatedClient has run went through the method its
\* resolution returned, with the password that resolution was given, and
\* is none of the resolver's probe and ensure commands
SessionsKeepMethod ==
    \A i \in 1..Len(runs) :
        LET n == runs[i].session
        IN  /\ n \in 1..Len(resolved)
            /\ resolved[n].err = NoError
            /\ resolved[n].method \in {methodSudo, methodSu}
            /\ runs[i].via = resolved[n].method
            /\ runs[i].stdin = asked[n].password \o "\n"
            /\ \A j \in 1..Len(sent) : sent[j].text # runs[i].text
            /\ \A j \in 1..Len(runs) :
                  runs[j].session = n => runs[j].via = runs[i].via

\* A step in which an ElevatedClient is run sends one command and leaves
\* what the resolutions sent and returned as it was
RunSendsOneCommand ==
    runs' # runs =>
        /\ Len(runs') = Len(runs) + 1
        /\ SubSeq(runs', 1, Len(runs)) = runs
        /\ sent' = sent
        /\ resolved' = resolved
        /\ asked' = asked

\* C25: the ElevatedClient of a successful resolution never changes: each
\* Run(command) hands exactly one command to the host, through the method
\* resolved when the client was made and with the password given then,
\* sends no probe and no ensure command, and keeps to its method whatever
\* later resolutions return.
Thm_C25_SessionImmutable ==
    /\ []SessionsKeepMethod
    /\ [][RunSendsOneCommand]_vars

\* C25 witness: the client of the first resolution, resolved to su, has
\* run two commands through su although a second resolution on the same
\* host returned sudo.
Wit_C25_SessionImmutable ==
    /\ Len(resolved) = 2
    /\ resolved[1] = [method |-> methodSu, err |-> NoError]
    /\ resolved[2] = [method |-> methodSudo, err |-> NoError]
    /\ Len(runs) = 2
    /\ runs[1].session = 1 /\ runs[2].session = 1
    /\ runs[2].via = methodSu

\* C26: an EnsureElevatedClient call given no client returns a
\* NilClientError, and one given a client and an empty password returns a
\* PasswordError; either returns no ElevatedClient and has sent no command
\* to the host.
Thm_C26_ValidatesInputs ==
    \A n \in 1..Len(asked) :
        (~asked[n].client \/ asked[n].password = "")
            => /\ HasReturned(n)
               /\ resolved[n].method = ""
               /\ resolved[n].err =
                    IF ~asked[n].client THEN NilClientError ELSE PasswordError
               /\ n \notin Calls
               /\ \A i \in 1..Len(runs) : runs[i].session # n

\* C26 witness: a call without a client and a call with a client and an
\* empty password have returned their errors, and nothing was sent.
Wit_C26_ValidatesInputs ==
    /\ Len(resolved) = 2
    /\ ~asked[1].client /\ asked[1].password # ""
    /\ asked[2].client /\ asked[2].password = ""
    /\ resolved[1].err = NilClientError
    /\ resolved[2].err = PasswordError
    /\ sent = <<>>

\* The elevated client in the Context is what it was before the last Phase.Run
ElevatedUntouched ==
    Get(store, ContextKeyElevatedClient) = Get(sudoRun.before, ContextKeyElevatedClient)

\* C27: when its ensurer returns one of the resolver's two authentication
\* errors, sudo or su, the sudo_ensure phase returns an InputRequestError
\* for its own password input; when it returns any other error of the
\* resolver the phase returns that very error and asks for nothing; either
\* way no elevated client is put in the Context.
Thm_C27_OnlyAuthAsksAgain ==
    (sudoRun.called = "yes" /\ sudoRun.ensured.err \in ResolverErrors)
        => IF sudoRun.ensured.err \in {SudoAuthenticationError, SuAuthenticationError}
           THEN /\ sudoRun.err.type = "InputRequestError"
                /\ sudoRun.err.PhaseID = "sudo_ensure"
                /\ sudoRun.err.Input = "password"
                /\ ElevatedUntouched
           ELSE /\ sudoRun.err = sudoRun.ensured.err
                /\ ~IsInputRequest(sudoRun.err)
                /\ store = sudoRun.before

\* C27 witness: the ensurer returned a SuAuthenticationError and the phase
\* an InputRequestError for sudo_ensure's password, with no elevated client
\* in the Context.
Wit_C27_OnlyAuthAsksAgain ==
    /\ sudoRun.called = "yes"
    /\ sudoRun.ensured.err = SuAuthenticationError
    /\ sudoRun.err.type = "InputRequestError"
    /\ ~Get(store, ContextKeyElevatedClient).ok

\* At most one caller is inside program.Run or on its way out of it, and
\* a.inFlight and a.program say who
OneRunning ==
    /\ Cardinality(Active) <= 1
    /\ inFlight <=> Active # {}
    /\ \A c \in Active : program = c
    /\ program # 0 => program \in Active

\* A caller that finds the App in flight returns ErrProgramRunning and
\* leaves a.inFlight and a.program as they are; no other caller is turned
\* away
RejectLeavesRunning ==
    \A c \in Callers :
        (callers[c].pc = "check" /\ callers'[c].pc # "check")
            => IF inFlight
               THEN /\ callers'[c].pc = "returned"
                    /\ callers'[c].ret = ErrProgramRunning
                    /\ inFlight' /\ program' = program
                    /\ Active' = Active
               ELSE /\ callers'[c].pc = "running"
                    /\ program' = c

\* C28: however Start and StartFrom calls on one App interleave, at most
\* one of them is running; a call that comes while another runs returns
\* ErrProgramRunning, and its return leaves the in-flight flag and the
\* program handle of the running call in place.
Thm_C28_OneStartAtATime ==
    /\ []OneRunning
    /\ [][RejectLeavesRunning]_vars

\* C28 witness: one caller was turned away with ErrProgramRunning while the
\* other is inside program.Run with the flag set and its program stored.
Wit_C28_OneStartAtATime ==
    \E c, d \in Callers :
        /\ callers[c].pc = "returned"
        /\ callers[c].ret = ErrProgramRunning
        /\ callers[d].pc = "running"
        /\ inFlight
        /\ program = d

\* C29: once the ctx handed to Start is cancelled while a phase is blocked
\* on it, that Start call returns in the end, although nobody calls Stop
\* and no key is pressed.
Claim_C29_CancelReturns ==
    \A c \in Callers :
        (callers[c].pc = "running" /\ callers[c].pipeline = "blocked"
            /\ callers[c].cancelled)
            ~> (callers[c].pc = "returned" \/ callers[c].quit)

\* The text holds this value
HasSubstring(text, value) ==
    \E i \in 1..Len(text) :
        i + Len(value) - 1 <= Len(text) /\ SubSeq(text, i, i + Len(value) - 1) = value

\* The longest of these values the text begins with, <<>> when none
LongestPrefix(text, S) ==
    LET here == {v \in S : Len(v) <= Len(text) /\ SubSeq(text, 1, Len(v)) = v}
    IN  IF here = {} THEN <<>>
        ELSE CHOOSE v \in here : \A w \in here : Len(w) <= Len(v)

\* The text with every occurrence of each of these values replaced by the
\* placeholder
RECURSIVE Redacted(_, _)
Redacted(text, S) ==
    IF text = <<>> THEN <<>>
    ELSE IF LongestPrefix(text, S) # <<>>
    THEN placeholder \o Redacted(SubSeq(text, Len(LongestPrefix(text, S)) + 1, Len(text)), S)
    ELSE <<Head(text)>> \o Redacted(Tail(text), S)

\* The line shows none of the secret values known when it was made, each
\* of their occurrences being replaced by the placeholder
LineRedacted(line) ==
    /\ \A v \in line.known : ~HasSubstring(line.shown, v)
    /\ line.shown = Redacted(line.raw, line.known)

\* C30: once a value was submitted for a secret-kind input, no status
\* message and no phase log line made afterwards holds that value: every
\* occurrence of it is replaced by the placeholder.
Claim_C30_SecretsRedacted ==
    /\ LineRedacted(statusMsg)
    /\ \A i \in 1..Len(logs) : LineRedacted(logs[i])

\* The ensure commands among these that failed
FailedEnsures(cs) == {i \in 1..Len(cs) : cs[i].cmd = "ensure" /\ ~cs[i].ok}

\* C32: when an ensure command fails, through sudo after a successful sudo
\* probe or through su after a successful su probe, the resolution ends
\* there: it returns an EnsureSudoError carrying the command's stderr and
\* no method, and no ElevatedClient runs a command for that call.
Thm_C32_FailedInstallEnds ==
    \A n \in Calls :
        \A i \in FailedEnsures(CallCmds(n)) :
            LET cs == CallCmds(n)
            IN  /\ i = Len(cs)
                /\ i >= 2 /\ cs[i - 1].cmd = "true" /\ cs[i - 1].ok
                /\ cs[i - 1].via = cs[i].via
                /\ HasReturned(n)
                /\ resolved[n] = [method |-> "", err |-> EnsureSudoError(cs[i].stderr)]
                /\ \A j \in 1..Len(runs) : runs[j].session # n

\* C32 witness: two resolutions ended with an EnsureSudoError, one whose
\* ensure command failed through su and one whose failed through sudo.
Wit_C32_FailedInstallEnds ==
    /\ Len(resolved) = 2
    /\ \E m, n \in 1..2 :
          /\ FailedEnsures(CallCmds(m)) # {} /\ FailedEnsures(CallCmds(n)) # {}
          /\ CallCmds(m)[Len(CallCmds(m))].via = methodSu
          /\ CallCmds(n)[Len(CallCmds(n))].via = methodSudo
          /\ resolved[m].err.type = "EnsureSudoError"
          /\ resolved[n].err.type = "EnsureSudoError"

\* Every su probe and every ensure command the n-th call sent succeeded:
\* what the call saw of a host on which both would succeed
FallbackWouldWork(n) ==
    \A i \in 1..Len(CallCmds(n)) :
        LET c == CallCmds(n)[i]
        IN  (IsProbe(c, methodSu) \/ c.cmd = "ensure") => c.ok

\* The n-th call returned a session
ReturnedSession(n) ==
    /\ resolved[n].err = NoError
    /\ resolved[n].method \in {methodSudo, methodSu}

\* C39 as stated: a resolution on a host where the su probe and the ensure
\* command succeed returns a session, whatever the sudo probe answers.
Claim_C39_FallbackRescues ==
    \A n \in Calls :
        (HasReturned(n) /\ FallbackWouldWork(n)) => ReturnedSession(n)

\* C39: a resolution on a host where the su probe and the ensure command
\* succeed returns a session when its first sudo probe succeeds or fails
\* with the permission or the missing signature; when that probe fails with
\* the authentication signature or an unclassified one, the resolution
\* returns the probe's error and has sent nothing through su.
Thm_C39_FallbackRescuesUnlessFailFast ==
    \A n \in Calls :
        (HasReturned(n) /\ FallbackWouldWork(n)) =>
            LET first == CallCmds(n)[1]
            IN  IF AuthSignature(first) \/ UnknownSignature(first)
                THEN /\ resolved[n].err # NoError /\ resolved[n].method = ""
                     /\ Len(CallCmds(n)) = 1
                ELSE ReturnedSession(n)

\* C39 witness: two resolutions were rescued by su, the first after the
\* missing signature and the second after the permission signature, and
\* each returned a session.
Wit_C39_FallbackRescuesUnlessFailFast ==
    /\ Len(resolved) = 2
    /\ FellBack(1, MissingSignature) /\ FellBack(2, PermissionSignature)
    /\ FallbackWouldWork(1) /\ FallbackWouldWork(2)
    /\ ReturnedSession(1) /\ ReturnedSession(2)

\* The last Run was called again after the ensurer rejected the password
\* and the handler answered the request
RetriedAfterRejection ==
    /\ sudoRun.called \in {"yes", "no"}
    /\ sudoRun.retry.asked /\ sudoRun.retry.rejected

\* A non-empty string, which resolvePassword takes for a password
IsPasswordValue(val) == val.type = "string" /\ val.v # ""

\* C37: a Run whose password the ensurer rejects with an authentication
\* error leaves nil under ssh:password; the Run that follows the handler's
\* answer hands the ensurer the value the handler returned, or, when that
\* value is no non-empty string, asks again without calling the ensurer.
Thm_C37_RetryUsesNewPassword ==
    /\ (sudoRun.called = "yes" /\ shouldRequestPassword(sudoRun.ensured.err))
          => /\ Get(store, ContextKeySSHPassword) = [val |-> nilValue, ok |-> TRUE]
             /\ IsInputRequest(sudoRun.err)
    /\ RetriedAfterRejection
          => IF IsPasswordValue(sudoRun.retry.answer)
             THEN /\ sudoRun.called = "yes"
                  /\ sudoRun.password = sudoRun.retry.answer.v
             ELSE /\ sudoRun.called = "no"
                  /\ IsInputRequest(sudoRun.err)

\* C37 witness: ssh:password held "hunter2" when the ensurer rejected it,
\* the handler answered "tr0ub4dor", and the next Run handed the ensurer
\* "tr0ub4dor", which it accepted.
Wit_C37_RetryUsesNewPassword ==
    /\ RetriedAfterRejection
    /\ sudoRun.retry.answer = strRetyped
    /\ sudoRun.called = "yes" /\ sudoRun.password = "tr0ub4dor"
    /\ sudoRun.ensured.err = NoError
    /\ Get(sudoRun.before, ContextKeySSHPassword).val = nilValue
    /\ Get(store, ContextKeySSHPassword).val = strRetyped

\* Run's goroutine goes on by itself, every phase.Run returns and every
\* RequestInput returns, with a value or with an error
RunStep == LoopNotifyStart \/ LoopReturnNil \/ ExecutePhaseRun \/ NotifyComplete

HandlerReturns ==
    \/ \E value \in HandlerValues : HandlerReturnsValue(value)
    \/ HandlerReturnsError

SpecRunFair == Spec /\ WF_vars(RunStep) /\ WF_vars(HandlerReturns)

\* Run has been called and has not returned
Running == pc \in {"loop", "execute", "input", "complete"}

\* The handler has been asked as often as the model lets it answer, and
\* the phase has asked once more
StillAsking == pc = "input" /\ Len(handlerLog) = MaxHandlerCalls

\* Each value the handler returned was followed by another phase.Run
ValueMeansRetry ==
    pc # "execute" =>
        \A j \in 1..Len(handlerLog) :
            handlerLog[j].err = NoError => handlerLog[j].at < Len(invoked)

\* When the last phase.Run asked for input, Run has returned only for
\* want of a handler or with the handler's error
OnlyHandlerEndsAsking ==
    (pc = "done" /\ Len(invoked) > 0 /\ IsInputRequest(invoked[Len(invoked)].err))
        => /\ result.type = "PhaseExecutionError"
           /\ \/ ~inputHandler /\ result.Err = invoked[Len(invoked)].err
              \/ inputHandler /\ result.Err = handlerCancelled

\* C33: the manager counts no retries: each value of the handler is followed
\* by another phase.Run, and after a phase.Run that asked for input Run
\* returns only without a handler or with the handler's error.  When every
\* phase.Run and every RequestInput returns, a Run that was called returns
\* unless a phase goes on asking after the handler's last answer.
Thm_C33_RunEndsUnlessAskedForever ==
    /\ [](ValueMeansRetry /\ OnlyHandlerEndsAsking)
    /\ Running ~> (pc = "done" \/ StillAsking)

\* C33 witness: the phase that asks for its password on every Run has been
\* run once more than the handler answered, every answer was a value, and
\* it is asking again.
Wit_C33_RunEndsUnlessAskedForever ==
    /\ StillAsking
    /\ phases[idx].kind = "alwaysInput"
    /\ \A j \in 1..Len(handlerLog) :
          handlerLog[j].err = NoError /\ handlerLog[j].meta = phases[idx].ID
    /\ Len(SelectSeq(invoked, LAMBDA r : r.phase = phases[idx].ID)) = MaxHandlerCalls + 1

\* With the ctx done and a phase left, the loop still takes that phase
DoneLoopGoesOn ==
    (ctxDone /\ pc = "loop" /\ idx <= Len(phases)) => ENABLED LoopNotifyStart

\* Run returns the ctx's error only when a phase returned it
CtxErrorFromPhase ==
    (pc = "done" /\ result # NoError /\ result.Err = ctxCanceled)
        => /\ Len(invoked) > 0
           /\ invoked[Len(invoked)].err = ctxCanceled

\* After a phase returned nil the loop moves to the next phase and nowhere
\* else, and the step that cancels the ctx changes nothing of the manager
SuccessMovesOn ==
    /\ (pc = "complete" /\ phaseErr = NoError /\ pc' # pc)
          => (pc' = "loop" /\ idx' = idx + 1 /\ result' = result)
    /\ (ctxDone' # ctxDone)
          => UNCHANGED <<pc, idx, store, pending, phaseErr, result, events,
                         invoked, handlerLog>>

\* C34: the manager never looks at the ctx: cancelling it changes nothing of
\* the Run in progress, the loop still takes the next phase when the ctx is
\* done, a phase that returns nil is followed by the next phase, and Run
\* returns the ctx's error only when a phase returned it.
Thm_C34_CancellationCooperative ==
    /\ [](DoneLoopGoesOn /\ CtxErrorFromPhase)
    /\ [][SuccessMovesOn]_vars

\* C34 witness: the ctx was cancelled before the first phase ran; that phase
\* never looks at the ctx and returned nil, the next phase was run after it,
\* and Run returned nil after running them all.
Wit_C34_CancellationCooperative ==
    /\ ctxDone /\ pc = "done" /\ result = NoError
    /\ Len(phases) >= 2 /\ Len(invoked) = Len(phases)
    /\ \A i \in 1..Len(invoked) : invoked[i].done /\ invoked[i].err = NoError

\* The input is stored in this Context and is not blank
Given(c, inputID) ==
    /\ GetInput(c, "ssh_connection", inputID).ok
    /\ TrimSpace(GetInput(c, "ssh_connection", inputID).val) # <<>>

\* A port is stored, is not blank and is no positive integer
PortInvalid(c) ==
    /\ Given(c, "port")
    /\ LET n == Atoi(TrimSpace(GetInput(c, "ssh_connection", "port").val))
       IN  ~n.ok \/ n.value <= 0

\* The first input, in the order host, username, port, authentication
\* method, password or key path, that is unmet or invalid; "" when none is
FirstUnmet(c) ==
    LET auth == TrimSpace(GetInput(c, "ssh_connection", "auth_method").val)
    IN  IF ~Given(c, "host") THEN "host"
        ELSE IF ~Given(c, "username") THEN "username"
        ELSE IF PortInvalid(c) THEN "port"
        ELSE IF ~Given(c, "auth_method") THEN "auth_method"
        ELSE IF auth = authMethodPassword
             THEN (IF Given(c, "password") THEN "" ELSE "password")
        ELSE IF auth = authMethodKeyPath
             THEN (IF Given(c, "key_path") THEN "" ELSE "key_path")
        ELSE "auth_method"

\* C35: Run returns an InputRequestError of ssh_connection for the first
\* input that is unmet or invalid, in the order host, username, port,
\* authentication method, password or key path, and does not call the
\* connector then; an invalid port is such a request for the port.  With no
\* input unmet it calls the connector and returns no InputRequestError.
Thm_C35_FirstUnmetInputRequested ==
    connRun.called # "none" =>
        IF FirstUnmet(connRun.before) # ""
        THEN /\ connRun.called = "no"
             /\ IsInputRequest(connRun.err)
             /\ connRun.err.PhaseID = "ssh_connection"
             /\ connRun.err.Input = FirstUnmet(connRun.before)
        ELSE /\ connRun.called = "yes"
             /\ ~IsInputRequest(connRun.err)

\* C35 witness: host and username are given, the port is "abc" and no
\* authentication method is stored: Run asked for the port and did not call
\* the connector.
Wit_C35_FirstUnmetInputRequested ==
    /\ connRun.called = "no"
    /\ Given(connRun.before, "host") /\ Given(connRun.before, "username")
    /\ Given(connRun.before, "port")
    /\ GetInput(connRun.before, "ssh_connection", "port").val = <<"a", "b", "c">>
    /\ ~Given(connRun.before, "auth_method")
    /\ connRun.err = InputRequestError("ssh_connection", "port",
                                       "port must be a positive integer")

\* The artifact keys of the ssh_connection phase
ArtifactKeys ==
    {"ssh:client", "ssh:password", "ssh:target_host", "ssh:target_user",
     "ssh:auth_method"}

\* C38 as stated: a Run that returns an error, for an unmet or invalid input
\* or from the connector, leaves every artifact key as it was.
Claim_C38_FailureLeavesStore ==
    (connRun.called # "none" /\ connRun.err # NoError)
        => /\ store = connRun.before
           /\ \A key \in ArtifactKeys : Get(store, key) = Get(connRun.before, key)

\* The answers recorded for an input of a phase, by their positions
AnswersTo(phaseID, inputID) ==
    {i \in 1..Len(answers) : answers[i].phase = phaseID /\ answers[i].input = inputID}

\* The Context that holds the latest answer to every input answered so far
\* under the input's key, and nothing else
LatestAnswers ==
    LET inputs == {<<answers[i].phase, answers[i].input>> : i \in 1..Len(answers)}
        last(k) == CHOOSE i \in AnswersTo(k[1], k[2]) :
                      \A j \in AnswersTo(k[1], k[2]) : j <= i
    IN  [key \in {inputKey(k[1], k[2]) : k \in inputs} |->
            answers[last(CHOOSE k \in inputs : inputKey(k[1], k[2]) = key)].value]

\* C31: right after a restart the Context holds the latest submitted value
\* of every input under the input's key and no other key, every phase is
\* pending, and the one manager that runs is at the first phase.
Thm_C31_RestartReplaysAnswers ==
    lastOp = "restart" =>
        /\ store = LatestAnswers
        /\ DOMAIN store \cap {"ssh:client", "prepare:done"} = {}
        /\ \A p \in DOMAIN phaseStatus : phaseStatus[p] = "pending"
        /\ pipelineActive
        /\ engines # <<>> /\ engines[Len(engines)] = newEngine(0)
        /\ engines[Len(engines)].at = 1

\* C31 witness: the operator answered the host prompt twice, a typo first;
\* the run connected and was then cancelled at the next prompt; after the
\* restart the Context holds the second answer only.
Wit_C31_RestartReplaysAnswers ==
    /\ lastOp = "restart"
    /\ Len(answers) = 2
    /\ answers[1].value = <<"typo">> /\ answers[2].value = GoodHost
    /\ AnswersTo("connect", "host") = {1, 2}
    /\ store = [key \in {inputKey("connect", "host")} |-> GoodHost]

\* A request is on its way to Update
RequestInFlight == \E i \in 1..Len(msgs) : msgs[i].type = "inputRequestMsg"

\* C36 as stated: while a manager waits for the response to its request,
\* the request is on its way to the prompt or the prompt is open: no prompt
\* is closed without a response.
Claim_C36_DismissalResponds ==
    Receivers # {} => (RequestInFlight \/ (prompting /\ activePrompt.open))

\* A restart or a retry is taken only when no pipeline is active; one that
\* is turned down leaves the Context, the phases' statuses and the managers
RefusedWhileActive ==
    /\ lastOp' \in {"restart", "retry"} => ~pipelineActive
    /\ lastOp' \in {"restartRefused", "retryRefused"}
          => /\ pipelineActive
             /\ UNCHANGED <<store, phaseStatus, engines, pipelineActive, savedInputs>>

\* C40: a manager runs only while the pipeline is active, restart and retry
\* are turned down while it is and change neither the Context nor a phase's
\* status, and so there is never more than one manager running.
Thm_C40_OneRunAtATime ==
    /\ [](Len(engines) <= 1 /\ (engines # <<>> => pipelineActive))
    /\ [][RefusedWhileActive]_vars

\* C40 witness: the second run of the program has connected and is inside
\* the next phase when the operator asks for a restart, which is turned down.
Wit_C40_OneRunAtATime ==
    /\ lastOp = "restartRefused"
    /\ starts = 2 /\ pipelineActive
    /\ Len(engines) = 1 /\ engines[1].at = 2
    /\ "ssh:client" \in DOMAIN store

====
